---- MODULE Spec2Model ----
(***************************************************************************)
(* Model of the ELO-Board library's error core (elob/util/error.h,         *)
(* elob/util/error.c) together with the receive interrupt of UART0         *)
(* (elob/drivers/uart.c) and the FIFO it feeds (elob/util/buffer.c).       *)
(*                                                                         *)
(* The main line is an arbitrary client of the try / catch / throw macros. *)
(* Its activation stack is cstack: one frame per function call and one per *)
(* protected scope that control is inside of (in the body, or in the       *)
(* handler that follows the closed try block).  A jmp_buf is named by the  *)
(* number of the scope that declares it; 0 is _error_h_globalJmpBuffer.    *)
(*                                                                         *)
(* Specifications:                                                         *)
(*   Spec, SpecWellNested  the error core with an arbitrary client         *)
(*   SpecBuffer            buffer_put / buffer_get / buffer_clear called   *)
(*                         one after the other, interrupts off             *)
(*   SpecUart              uart_readByte / buffer_get of the main line     *)
(*                         preempted by the receive interrupt              *)
(*   SpecUartFair          uart_readByte and the interrupt, with fairness  *)
(*   SpecBaud              uart_setBaudrate over a set of requested rates  *)
(*   SpecUartInit          uart_init inside and outside of try blocks      *)
(*   SpecSend              uart_sendString / uart_sendByte and the         *)
(*                         transmitter                                     *)
(*   SpecI2C               the TWI master driver with an arbitrary client  *)
(*                         and arbitrary statuses reported by the hardware *)
(*   SpecDS1307            DS1307_getAllRegisters over that driver         *)
(*   SpecBitrate           i2c_master_setBitrate over a set of requested   *)
(*                         rates, and DS1307_init                          *)
(*   SpecDatetime          the conversions of DS1307_setDatetime and       *)
(*                         DS1307_getDatetime between time_t, struct tm    *)
(*                         and the register image                          *)
(*   SpecRtc               one DS1307 transaction, or DS1307_setDatetime,  *)
(*                         over the driver                                 *)
(*   SpecRaw               the storage of the four receive FIFOs and the   *)
(*                         four receive interrupts                         *)
(*   SpecWait              the TWI master driver statement by statement,   *)
(*                         with the hardware setting TWINT when it likes   *)
(*   SpecReadln            usb_terminal_readln over the characters typed   *)
(*                                                                         *)
(* setjmp/longjmp are those of avr-libc: the jmp_buf holds the stack       *)
(* pointer, the return address and SREG; longjmp(buf, 0) makes setjmp      *)
(* return 1.  int and unsigned int are 16 bits wide.                       *)
(***************************************************************************)
EXTENDS Integers, Sequences, FiniteSets, TLC

VARIABLES
    pc,                          \* "boot", "init" (inside error_init), "run", "halted" (while(1) of the fatal handler), "undefined"
    cstack,                      \* main-line activation stack, innermost frame last
    nextId,                      \* number of the next jmp_buf to be declared
    _error_h_currentJmpBuf,      \* error.h:57
    _error_h_setjmpReturnValue,  \* error.h:62
    _error_h_currentErrorName,   \* error.h:68
    _error_h_currentErrorMessage,\* error.h:73
    SREG_I,                      \* global interrupt enable flag
    PORTB,                       \* set of the bits of PORTB that are 1
    _uartBuffers,                \* uart.c:53, receive FIFO of UART0
    usbOut,                      \* lines written to the USB terminal since the last throw began
    lastThrow,                   \* history: the most recent throw and where it went
    reader,                      \* the main line's position in uart_readByte / buffer_get and their locals
    written,                     \* history: bytes stored by buffer_put and not discarded by buffer_clear
    returned,                    \* history: bytes returned by buffer_get
    rxCount,                     \* history: number of bytes handed to buffer_put so far
    baudrate,                    \* argument of the last uart_setBaudrate call (0: none yet)
    U2X0,                        \* UCSR0A bit U2X0
    UBRR0,                       \* UBRR0H and UBRR0L
    UCSR0B,                      \* set of the bits of UCSR0B that are 1
    UCSR0C,                      \* set of the bits of UCSR0C that are 1
    UDRE0,                       \* UCSR0A bit UDRE0: the transmit data register is empty
    udrWrites,                   \* history: bytes written to UDR0 by the current uart_sendString call
    sender,                      \* the main line's position in uart_sendString / uart_sendByte
    TWCR,                        \* set of the bits of TWCR that are 1 (TWINT and TWWC are kept in SpecWait only)
    TWDR,                        \* TWI data register
    twiLog,                      \* history: the bus actions requested and what the hardware reported
    twiData,                     \* the value returned by the last i2c_master_readByte
    twiCall,                     \* history: the last call of an I2C driver function and how it ended
    TWBR,                        \* TWI bit rate register
    TWSR,                        \* the value last written to TWSR (the prescaler bits TWPS1:0)
    bitrate,                     \* history: the argument of the last i2c_master_setBitrate (0: none)
    rtcTime,                     \* the time_t passed to DS1307_setDatetime: days since 2000-01-01 and seconds of the day
    registers,                   \* uint8_t registers[8] of DS1307_setDatetime / DS1307_getDatetime
    currentTime,                 \* struct tm currentTime of DS1307_getDatetime
    returnedTime,                \* the time_t returned by DS1307_getDatetime
    dt,                          \* history: the calendar time asked for, the hour the device shows, what was done last
    rtc,                         \* the main line's position in the other transactions of ds1307.c
    _rawUARTBuffers,             \* uart.c:47, by address: the bytes of the array
    behind,                      \* by address: the UART_BUFFER_SIZE bytes behind _rawUARTBuffers
    _uartBuffers_all,            \* uart.c:53  _uartBuffers[0..3], ptr as an address
    rxIf,                        \* history: the interface whose receive interrupt ran last
    tw,                          \* the main line's position in a function of i2c_master.c, step by step
    twStatus,                    \* TWSR & 0xF8 as the hardware has set it
    rl,                          \* the main line's position in usb_terminal_readln, its arguments and locals
    target,                      \* the caller's buffer, with one byte before and one byte behind it
    ds,                          \* the main line's position in DS1307_getAllRegisters
    registerTable                \* the caller's array filled by DS1307_getAllRegisters

\* the state of the drivers, which the error core never touches
\* the peripherals other than the receive FIFO and the baud rate registers
dtVars == <<rtcTime, registers, currentTime, returnedTime, dt>>
rawVars == <<_rawUARTBuffers, behind, _uartBuffers_all, rxIf>>
waitVars == <<tw, twStatus>>
lineVars == <<rl, target>>
moreVars == <<rawVars, waitVars, lineVars>>
periphVars == <<UCSR0B, UCSR0C, UDRE0, udrWrites, sender, TWCR, TWDR, twiLog, twiData,
                twiCall, TWBR, TWSR, bitrate, ds, registerTable, dtVars, rtc, moreVars>>
ctrlVars == <<UCSR0B, UCSR0C>>
twiVars == <<TWCR, TWDR, twiLog, twiData, twiCall, TWBR, TWSR, bitrate, ds, registerTable>>
drvVars == <<reader, written, returned, rxCount, baudrate, U2X0, UBRR0, periphVars>>

vars == <<pc, cstack, nextId, _error_h_currentJmpBuf, _error_h_setjmpReturnValue,
          _error_h_currentErrorName, _error_h_currentErrorMessage, SREG_I, PORTB,
          _uartBuffers, usbOut, lastThrow, reader, written, returned, rxCount,
          baudrate, U2X0, UBRR0, periphVars>>

(***************************************************************************)
(* Bounds of the model.                                                    *)
(***************************************************************************)
MaxDepth == 3            \* frames on cstack
MaxScopes == 2           \* protected scopes entered in one run
UART_BUFFER_SIZE == 2    \* config.template.h:14 is a template; the application picks the value
MaxLength == 3           \* the largest maxLength passed to usb_terminal_readln
MaxTyped == 5            \* characters received during one call of usb_terminal_readln

(***************************************************************************)
(* Program constants.                                                      *)
(***************************************************************************)
ERR_NONE == 0
ERR_BITRATE_TOO_LOW == 2
ERR_I2C_TRANSMISSION == 3
ERR_BUFFER_OVERFLOW == 4
IntWidth == 65536        \* 2^16: int and unsigned int of avr-gcc
NULL == -1               \* null jmp_buf pointer
GlobalJmpBuf == 0        \* &_error_h_globalJmpBuffer
NullStr == "NULL"        \* null char pointer
RxByte == 65             \* the byte value the receiver delivers

\* throw(X) call sites of the client: <<text of the argument, its value>>
ThrowSites == { <<"ERR_NONE", 0>>, <<"ERR_I2C_TRANSMISSION", 3>>, <<"APP_ERR_WIDE", 65536>> }
Messages == { "i2c: unexpected status" }

\* the main line is in neither uart_readByte nor buffer_get
Idle == [pc |-> "idle", via |-> "none", tmp |-> 0, data |-> 0, n |-> 0, k |-> 0]

\* no I2C driver function has been called
NoCall == [fn |-> "none", arg |-> 0, direction |-> 0, outcome |-> "none"]

\* struct tm of 2000-01-01 00:00:00, a Saturday
Midnight2000 == [tm_sec |-> 0, tm_min |-> 0, tm_hour |-> 0, tm_mday |-> 1, tm_mon |-> 0,
                 tm_year |-> 100, tm_wday |-> 6]

\* the main line is in no function of i2c_master.c
NotInDriver == [fn |-> "none", pc |-> "idle", slaveAddress |-> 0, direction |-> 0, data |-> 0]

\* the main line is not in usb_terminal_readln
NotInReadln == [pc |-> "idle", maxLength |-> 0, i |-> 0, currentChar |-> 0, received |-> << >>]
\* the value of a byte of the caller's memory that usb_terminal_readln has not written
Untouched == 255

\* no receive interrupt has run
NoInterface == 4

\* the main line is in none of DS1307_getRegister, DS1307_setRegister,
\* DS1307_setAllRegisters, DS1307_setDatetime
NoRtc == [fn |-> "none", pc |-> "idle", reg |-> 0, data |-> 0, i |-> 0, from |-> 0,
          registerTable |-> [k \in 0..7 |-> 0], setDatetime |-> FALSE]

\* the main line is not in DS1307_getAllRegisters
NotReading == [pc |-> "idle", registerAddress |-> 0]

\* the main line is not in uart_sendString
NotSending == [pc |-> "idle", s |-> << >>, i |-> 0]

FnFrame == [kind |-> "fn", id |-> 0, prev |-> 0, phase |-> "none", sreg |-> FALSE,
            errorCode |-> 0, errorName |-> NullStr, errorMessage |-> NullStr]

\* code, name, msg: what was passed; scope, phase: the innermost try statement control was in
\* and in which part of it; inner: the innermost scope whose body was active (0: none);
\* target: the jmp_buf jumped to; handler: the scope whose handler started to run
\* (0: the fatal handler, -1: none); ocode, oname, omsg: what a re-throwing handler had caught
NoThrow == [code |-> 0, name |-> NullStr, msg |-> NullStr, scope |-> -1, inner |-> -1,
            phase |-> "none", target |-> -1, handler |-> -1, isr |-> FALSE,
            rethrow |-> FALSE, ocode |-> 0, oname |-> NullStr, omsg |-> NullStr]

(***************************************************************************)
(* Helpers over the activation stack.                                      *)
(***************************************************************************)
Max(S) == CHOOSE x \in S : \A y \in S : y <= x
Min(S) == CHOOSE x \in S : \A y \in S : x <= y

TryIdx(st) == { i \in DOMAIN st : st[i].kind = "try" }
BodyIdx(st) == { i \in DOMAIN st : st[i].kind = "try" /\ st[i].phase = "body" }
BodyIds(st) == { st[i].id : i \in BodyIdx(st) }

\* the innermost protected scope whose body control is in the dynamic extent of (0: none)
InnermostActive(st) == IF BodyIdx(st) = {} THEN 0 ELSE st[Max(BodyIdx(st))].id

\* "body" / "handler": what part of the innermost try statement control is in; "none" outside all
WhereIn(st) == IF TryIdx(st) = {} THEN "none" ELSE st[Max(TryIdx(st))].phase
\* and which try statement that is (0: none)
WhereId(st) == IF TryIdx(st) = {} THEN 0 ELSE st[Max(TryIdx(st))].id

\* the jmp_buf j holds a context saved by setjmp in an activation that has not terminated
\* and in a block that has not been left: for the global jmp_buf the activation of
\* error_init (error.c:19), for a local one the try block that declares it (error.h:130)
Live(j, st) ==
    IF j = GlobalJmpBuf
    THEN \E i \in DOMAIN st : st[i].kind = "error_init"
    ELSE j \in BodyIds(st)

(***************************************************************************)
(* binary.h                                                                *)
(***************************************************************************)
SETBIT(variable, bit) == variable \cup {bit}
CLEARBIT(variable, bit) == variable \ {bit}
\* CHECKBIT of a number: nonzero iff bit number bit of it is 1
CHECKBIT(number, bit) == (number \div (2 ^ bit)) % 2
WRITEBIT(variable, bit, val) == IF val # 0 THEN SETBIT(variable, bit) ELSE CLEARBIT(variable, bit)

(***************************************************************************)
(* buffer.c                                                                *)
(***************************************************************************)
\* (variant: full only beyond the capacity)
buffer_full_beyond(buffer) == buffer.size > buffer.maxSize
buffer_full(buffer) == buffer.size >= buffer.maxSize
\* (variant: never empty)
buffer_empty_never(buffer) == FALSE
buffer_empty(buffer) == buffer.size = 0

(***************************************************************************)
(* Conversions at the call longjmp(_error_h_currentJmpBuf, errorCode):     *)
(* errorCode is an unsigned int parameter, longjmp takes an int, and       *)
(* setjmp never returns 0 from a longjmp.                                  *)
(***************************************************************************)
ToUnsignedInt(n) == n % IntWidth
ToInt(u) == IF u >= IntWidth \div 2 THEN u - IntWidth ELSE u
longjmpResult(errorCode) ==
    LET val == ToInt(ToUnsignedInt(errorCode)) IN IF val = 0 THEN 1 ELSE val

(***************************************************************************)
(* The two tests of the try statement.                                     *)
(***************************************************************************)
\* error.h:135  if(!_error_h_setjmpResult) body
BodyRuns(setjmpResult) == setjmpResult = 0
\* (variant: a catch macro without its test)
HandlerRuns_untested(setjmpReturnValue) == TRUE
\* error.h:153/166/182/201  if(_error_h_setjmpReturnValue) handler
HandlerRuns(setjmpReturnValue) == setjmpReturnValue # 0

\* what is left on the stack of a try statement after _closeTry and the catch macro:
\* the handler, with the catchErrorMessage variables assigned, or nothing
AfterClose(fr, setjmpResult, errorName, errorMessage) ==
    IF HandlerRuns(setjmpResult)
    THEN << [fr EXCEPT !.phase = "handler", !.errorCode = setjmpResult,
                       !.errorName = errorName, !.errorMessage = errorMessage] >>
    ELSE << >>

(***************************************************************************)
(* Initial state: after reset, before main has called anything.            *)
(***************************************************************************)
Init ==
    /\ pc = "boot"
    /\ cstack = << >>
    /\ nextId = 1
    /\ _error_h_currentJmpBuf = NULL
    /\ _error_h_setjmpReturnValue = 0
    /\ _error_h_currentErrorName = NullStr
    /\ _error_h_currentErrorMessage = NullStr
    /\ SREG_I = FALSE
    /\ PORTB = {}
    /\ _uartBuffers = [i \in {0} |-> [size |-> 0, maxSize |-> UART_BUFFER_SIZE,
                                      ptr |-> [k \in 0..(UART_BUFFER_SIZE - 1) |-> 0]]]
    /\ usbOut = << >>
    /\ lastThrow = NoThrow
    /\ reader = Idle
    /\ written = << >>
    /\ returned = << >>
    /\ rxCount = 0
    /\ baudrate = 0
    /\ U2X0 = FALSE
    /\ UBRR0 = [H |-> 0, L |-> 0]
    /\ UCSR0B = {}
    /\ UCSR0C = {"UCSZ00", "UCSZ01"}
    /\ UDRE0 = TRUE
    /\ udrWrites = << >>
    /\ sender = NotSending
    /\ TWCR = {}
    /\ TWDR = 255
    /\ twiLog = << >>
    /\ twiData = 0
    /\ twiCall = NoCall
    /\ TWBR = 0
    /\ TWSR = 0
    /\ bitrate = 0
    /\ ds = NotReading
    /\ rtc = NoRtc
    /\ _rawUARTBuffers = [a \in 0..(3 * UART_BUFFER_SIZE - 1) |-> 0]
    /\ behind = [a \in (3 * UART_BUFFER_SIZE)..(4 * UART_BUFFER_SIZE - 1) |-> 0]
    /\ _uartBuffers_all = [i \in 0..3 |-> [size |-> 0, maxSize |-> UART_BUFFER_SIZE,
                                             ptr |-> i * UART_BUFFER_SIZE]]
    /\ rxIf = NoInterface
    /\ tw = NotInDriver
    /\ twStatus = 248            \* I2C_MASTER_NO_STATUS
    /\ rl = NotInReadln
    /\ target = [k \in -1..MaxLength |-> Untouched]
    /\ rtcTime = [days |-> 0, secs |-> 0]
    /\ registers = [k \in 0..7 |-> <<0, 0, 0, 7, 1, 1, 0, 0>>[k + 1]]
    /\ currentTime = Midnight2000
    /\ returnedTime = [days |-> 0, secs |-> 0]
    /\ dt = [stage |-> "none", asked |-> Midnight2000, hour |-> 0]
    /\ registerTable = [k \in 0..7 |-> 0]

(***************************************************************************)
(* error.c:14  error_init: installs the global jmp_buf and saves the       *)
(* context in it (setjmp returns 0, so the handler call is skipped);       *)
(* error.c:23  then returns to main, which ends the activation that called *)
(* setjmp.                                                                 *)
(***************************************************************************)
error_init ==
    /\ pc = "boot"
    /\ _error_h_currentJmpBuf' = GlobalJmpBuf
    /\ cstack' = << [FnFrame EXCEPT !.kind = "error_init", !.sreg = SREG_I] >>
    /\ pc' = "init"
    /\ UNCHANGED <<nextId, _error_h_setjmpReturnValue, _error_h_currentErrorName,
                   _error_h_currentErrorMessage, SREG_I, PORTB, _uartBuffers, usbOut, lastThrow>>
    /\ UNCHANGED drvVars

error_init_return ==
    /\ pc = "init"
    /\ cstack' = << >>
    /\ pc' = "run"
    /\ UNCHANGED <<nextId, _error_h_currentJmpBuf, _error_h_setjmpReturnValue,
                   _error_h_currentErrorName, _error_h_currentErrorMessage, SREG_I, PORTB,
                   _uartBuffers, usbOut, lastThrow>>
    /\ UNCHANGED drvVars

(***************************************************************************)
(* elob.c:11  elob_init: sei() (the port direction registers are not       *)
(* modelled).  The client calls error_init first (error.h:219).            *)
(***************************************************************************)
elob_init ==
    /\ pc = "run"
    /\ SREG_I' = TRUE
    /\ UNCHANGED <<pc, cstack, nextId, _error_h_currentJmpBuf, _error_h_setjmpReturnValue,
                   _error_h_currentErrorName, _error_h_currentErrorMessage, PORTB,
                   _uartBuffers, usbOut, lastThrow>>
    /\ UNCHANGED drvVars

(***************************************************************************)
(* Client steps that do not involve the library: calling a function,       *)
(* returning from the current function (from anywhere in it, also from     *)
(* inside a try body), and leaving a try body by break / continue / goto.  *)
(* None of them touches the library's variables.                           *)
(***************************************************************************)
FnIdx(st) == { i \in DOMAIN st : st[i].kind = "fn" }

Call ==
    /\ pc = "run"
    /\ Len(cstack) < MaxDepth
    /\ cstack' = Append(cstack, FnFrame)
    /\ UNCHANGED <<pc, nextId, _error_h_currentJmpBuf, _error_h_setjmpReturnValue,
                   _error_h_currentErrorName, _error_h_currentErrorMessage, SREG_I, PORTB,
                   _uartBuffers, usbOut, lastThrow>>
    /\ UNCHANGED drvVars

Return ==
    /\ pc = "run"
    /\ FnIdx(cstack) # {}
    /\ cstack' = SubSeq(cstack, 1, Max(FnIdx(cstack)) - 1)
    /\ UNCHANGED <<pc, nextId, _error_h_currentJmpBuf, _error_h_setjmpReturnValue,
                   _error_h_currentErrorName, _error_h_currentErrorMessage, SREG_I, PORTB,
                   _uartBuffers, usbOut, lastThrow>>
    /\ UNCHANGED drvVars

Break ==
    /\ pc = "run"
    /\ cstack # << >>
    /\ cstack[Len(cstack)].kind = "try"
    /\ cstack[Len(cstack)].phase = "body"
    /\ cstack' = SubSeq(cstack, 1, Len(cstack) - 1)
    /\ UNCHANGED <<pc, nextId, _error_h_currentJmpBuf, _error_h_setjmpReturnValue,
                   _error_h_currentErrorName, _error_h_currentErrorMessage, SREG_I, PORTB,
                   _uartBuffers, usbOut, lastThrow>>
    /\ UNCHANGED drvVars

(***************************************************************************)
(* error.h:128  try: remember the current target, install the local        *)
(* jmp_buf, setjmp (returns 0), enter the body.                            *)
(***************************************************************************)
try ==
    /\ pc = "run"
    /\ Len(cstack) < MaxDepth
    /\ nextId <= MaxScopes
    /\ cstack' = Append(cstack, [FnFrame EXCEPT !.kind = "try", !.id = nextId,
                                                !.prev = _error_h_currentJmpBuf,
                                                !.phase = "body", !.sreg = SREG_I])
    /\ _error_h_currentJmpBuf' = nextId
    /\ nextId' = nextId + 1
    /\ UNCHANGED <<pc, _error_h_setjmpReturnValue, _error_h_currentErrorName,
                   _error_h_currentErrorMessage, SREG_I, PORTB, _uartBuffers, usbOut, lastThrow>>
    /\ UNCHANGED drvVars

(***************************************************************************)
(* error.h:141  the body ran to its end: _closeTry with the result 0 of    *)
(* the direct setjmp, then the test of the catch macro.                    *)
(***************************************************************************)
catch ==
    /\ pc = "run"
    /\ cstack # << >>
    /\ LET fr == cstack[Len(cstack)] IN
        /\ fr.kind = "try"
        /\ fr.phase = "body"
        /\ _error_h_setjmpReturnValue' = 0
        /\ _error_h_currentJmpBuf' = fr.prev
        /\ cstack' = SubSeq(cstack, 1, Len(cstack) - 1)
                     \o AfterClose(fr, 0, _error_h_currentErrorName, _error_h_currentErrorMessage)
    /\ UNCHANGED <<pc, nextId, _error_h_currentErrorName, _error_h_currentErrorMessage,
                   SREG_I, PORTB, _uartBuffers, usbOut, lastThrow>>
    /\ UNCHANGED drvVars

\* the handler body ran to its end (or was left by break)
HandlerEnd ==
    /\ pc = "run"
    /\ cstack # << >>
    /\ cstack[Len(cstack)].kind = "try"
    /\ cstack[Len(cstack)].phase = "handler"
    /\ cstack' = SubSeq(cstack, 1, Len(cstack) - 1)
    /\ UNCHANGED <<pc, nextId, _error_h_currentJmpBuf, _error_h_setjmpReturnValue,
                   _error_h_currentErrorName, _error_h_currentErrorMessage, SREG_I, PORTB,
                   _uartBuffers, usbOut, lastThrow>>
    /\ UNCHANGED drvVars

(***************************************************************************)
(* error.c:66  _error_h_uncaughtErrorHandler, reached from error_init's    *)
(* if(setjmpVal): cli(), red LED, two lines on the terminal, while(1).     *)
(***************************************************************************)
_error_h_uncaughtErrorHandler(out) ==
    /\ SREG_I' = FALSE
    /\ PORTB' = CLEARBIT(CLEARBIT(SETBIT(PORTB, 5), 6), 7)
    /\ usbOut' = out \o << "The above error was not caught.",
                           "Reset the board to continue operation." >>
    /\ pc' = "halted"
    /\ cstack' = << >>
    /\ UNCHANGED <<_error_h_currentJmpBuf, _error_h_setjmpReturnValue>>

(***************************************************************************)
(* longjmp(_error_h_currentJmpBuf, errorCode) and the code it resumes.     *)
(*                                                                         *)
(* - target 0: the context saved in error_init (error.c:19).  error_init   *)
(*   has returned, but its resumption code reads nothing of its frame      *)
(*   before calling the handler, which never returns: the build runs the   *)
(*   fatal handler.                                                        *)
(* - target a scope whose body is on the stack: setjmp of error.h:134      *)
(*   returns again, SREG is restored, _closeTry runs and the catch macro   *)
(*   tests the result.                                                     *)
(* - target a scope whose body has been left without _closeTry (return,    *)
(*   break): the jmp_buf and the locals of the try block are dead stack    *)
(*   memory.  Either the stale handler runs on what is left of that frame  *)
(*   or the jump goes astray; in both cases nothing is known of what       *)
(*   follows (pc = "undefined").                                           *)
(***************************************************************************)
longjmp(errorCode, out, t) ==
    LET tgt == _error_h_currentJmpBuf
        setjmpResult == longjmpResult(errorCode)
        th == [t EXCEPT !.scope = WhereId(cstack), !.inner = InnermostActive(cstack),
                        !.phase = WhereIn(cstack), !.target = tgt]
    IN
    IF tgt = GlobalJmpBuf THEN
        IF setjmpResult # 0
        THEN /\ _error_h_uncaughtErrorHandler(out)
             /\ lastThrow' = [th EXCEPT !.handler = 0]
             /\ UNCHANGED <<nextId, _uartBuffers>>
        ELSE /\ pc' = "undefined"
             /\ lastThrow' = th
             /\ usbOut' = out
             /\ UNCHANGED <<cstack, nextId, _error_h_currentJmpBuf, _error_h_setjmpReturnValue,
                            SREG_I, PORTB, _uartBuffers>>
    ELSE IF Live(tgt, cstack) THEN
        LET i == CHOOSE k \in BodyIdx(cstack) : cstack[k].id = tgt
            fr == cstack[i]
        IN
        /\ usbOut' = out
        /\ SREG_I' = fr.sreg
        /\ IF BodyRuns(setjmpResult)
           THEN /\ cstack' = SubSeq(cstack, 1, i)
                /\ lastThrow' = th
                /\ UNCHANGED <<_error_h_currentJmpBuf, _error_h_setjmpReturnValue>>
           ELSE /\ _error_h_setjmpReturnValue' = setjmpResult
                /\ _error_h_currentJmpBuf' = fr.prev
                /\ cstack' = SubSeq(cstack, 1, i - 1)
                             \o AfterClose(fr, setjmpResult, _error_h_currentErrorName',
                                           _error_h_currentErrorMessage')
                /\ lastThrow' = [th EXCEPT !.handler = IF HandlerRuns(setjmpResult) THEN tgt ELSE -1]
        /\ UNCHANGED <<pc, nextId, PORTB, _uartBuffers>>
    ELSE
        /\ pc' = "undefined"
        /\ usbOut' = out
        /\ \/ /\ tgt > 0
              /\ _error_h_setjmpReturnValue' = setjmpResult
              /\ cstack' = AfterClose([FnFrame EXCEPT !.kind = "try", !.id = tgt], setjmpResult,
                                      _error_h_currentErrorName', _error_h_currentErrorMessage')
              /\ lastThrow' = [th EXCEPT !.handler = tgt]
           \/ /\ cstack' = << >>
              /\ lastThrow' = th
              /\ UNCHANGED _error_h_setjmpReturnValue
        /\ UNCHANGED <<nextId, _error_h_currentJmpBuf, SREG_I, PORTB, _uartBuffers>>

(***************************************************************************)
(* error.c:25  _error_h_throw                                              *)
(* error.c:44  _error_h_throwWithMessage                                   *)
(* t is the history record of the throw (who threw, what was passed).      *)
(***************************************************************************)
\* (variant: the message of an earlier throw is not cleared)
_error_h_throw_keepsMessage(errorCode, errorName, t) ==
    /\ _error_h_currentErrorName' = errorName
    /\ _error_h_currentErrorMessage' = _error_h_currentErrorMessage
    /\ longjmp(errorCode, << errorName >>, t)

\* (variant: the name is stored but not printed)
_error_h_throw_silent(errorCode, errorName, t) ==
    /\ _error_h_currentErrorName' = errorName
    /\ _error_h_currentErrorMessage' = NullStr
    /\ longjmp(errorCode, << >>, t)

_error_h_throw(errorCode, errorName, t) ==
    /\ _error_h_currentErrorName' = errorName
    /\ _error_h_currentErrorMessage' = NullStr
    /\ longjmp(errorCode, << errorName >>, t)

_error_h_throwWithMessage(errorCode, errorName, errorMessage, t) ==
    /\ _error_h_currentErrorName' = errorName
    /\ _error_h_currentErrorMessage' = errorMessage
    /\ longjmp(errorCode, << errorName, errorMessage >>, t)

\* the history record of a throw of (code, name, msg)
Thrown(code, name, msg) == [NoThrow EXCEPT !.code = code, !.name = name, !.msg = msg]

(***************************************************************************)
(* error.h:208  throw(error)            _error_h_throw(error, #error)      *)
(* error.h:216  throwMessage(error,msg) _error_h_throwWithMessage(...)     *)
(* issued by the client at a call site that names an error constant.       *)
(***************************************************************************)
throw ==
    /\ pc = "run"
    /\ \E site \in ThrowSites :
          _error_h_throw(site[2], site[1], Thrown(site[2], site[1], NullStr))
    /\ UNCHANGED drvVars

throwMessage ==
    /\ pc = "run"
    /\ \E site \in ThrowSites, msg \in Messages :
          _error_h_throwWithMessage(site[2], site[1], msg, Thrown(site[2], site[1], msg))
    /\ UNCHANGED drvVars

(***************************************************************************)
(* The same macros used in a handler on the variables that catchErrorMessage*)
(* (error.h:196) filled:  catchErrorMessage(error_t error, const char*     *)
(* errorName, const char* errorMessage) { throw(error); }                  *)
(* The macro passes #error, the text of its argument, as the name.         *)
(***************************************************************************)
InHandler ==
    /\ cstack # << >>
    /\ cstack[Len(cstack)].kind = "try"
    /\ cstack[Len(cstack)].phase = "handler"

Rethrown(fr, name, msg) ==
    [Thrown(fr.errorCode, name, msg) EXCEPT !.rethrow = TRUE, !.ocode = fr.errorCode,
                                          !.oname = fr.errorName, !.omsg = fr.errorMessage]

rethrow ==
    /\ pc = "run"
    /\ InHandler
    /\ LET fr == cstack[Len(cstack)] IN
          _error_h_throw(fr.errorCode, "error", Rethrown(fr, "error", NullStr))
    /\ UNCHANGED drvVars

rethrowMessage ==
    /\ pc = "run"
    /\ InHandler
    /\ LET fr == cstack[Len(cstack)] IN
          _error_h_throwWithMessage(fr.errorCode, "error", fr.errorMessage,
                                    Rethrown(fr, "error", fr.errorMessage))
    /\ UNCHANGED drvVars

(***************************************************************************)
(* buffer.c:10  buffer_put; isr tells whether the receive interrupt or the *)
(* main line is the caller.  The call is one step: the interrupt handler   *)
(* is not interrupted, and the main line calls it with interrupts off.     *)
(* uart.c:168   ISR(USART0_RX_vect): runs between two main-line steps      *)
(* whenever interrupts are enabled and a byte has arrived.  The hardware   *)
(* clears the I flag for the duration of the handler; a throw leaves the   *)
(* handler through longjmp.                                                *)
(***************************************************************************)
\* (variant: no test for a full buffer)
buffer_put_unchecked(i, data, isr) ==
    LET buffer == _uartBuffers[i] IN
    /\ _uartBuffers' = [_uartBuffers EXCEPT ![i] =
           [buffer EXCEPT !.size = buffer.size + 1,
                          !.ptr = [k \in DOMAIN buffer.ptr |->
                                      IF k = buffer.size THEN data ELSE buffer.ptr[k]]]]
    /\ UNCHANGED <<pc, cstack, nextId, _error_h_currentJmpBuf, _error_h_setjmpReturnValue,
                   _error_h_currentErrorName, _error_h_currentErrorMessage, SREG_I, PORTB,
                   usbOut, lastThrow>>

\* (variant: a full buffer takes the new byte in place of its newest one)
buffer_put_overwrite(i, data, isr) ==
    LET buffer == _uartBuffers[i]
        at == IF buffer_full(buffer) THEN buffer.maxSize - 1 ELSE buffer.size
    IN
    /\ _uartBuffers' = [_uartBuffers EXCEPT ![i] =
           [buffer EXCEPT !.ptr = [buffer.ptr EXCEPT ![at] = data], !.size = at + 1]]
    /\ UNCHANGED <<pc, cstack, nextId, _error_h_currentJmpBuf, _error_h_setjmpReturnValue,
                   _error_h_currentErrorName, _error_h_currentErrorMessage, SREG_I, PORTB,
                   usbOut, lastThrow>>

buffer_put(i, data, isr) ==
    LET buffer == _uartBuffers[i] IN
    IF buffer_full(buffer)
    THEN /\ _error_h_throwWithMessage(ERR_BUFFER_OVERFLOW, "ERR_BUFFER_OVERFLOW",
                "buffer_put: Buffer too long.",
                [Thrown(ERR_BUFFER_OVERFLOW, "ERR_BUFFER_OVERFLOW",
                        "buffer_put: Buffer too long.") EXCEPT !.isr = isr])
    ELSE /\ _uartBuffers' = [_uartBuffers EXCEPT ![i] =
                [buffer EXCEPT !.ptr = [buffer.ptr EXCEPT ![buffer.size] = data],
                               !.size = buffer.size + 1]]
         /\ UNCHANGED <<pc, cstack, nextId, _error_h_currentJmpBuf, _error_h_setjmpReturnValue,
                        _error_h_currentErrorName, _error_h_currentErrorMessage, SREG_I, PORTB,
                        usbOut, lastThrow>>

\* uart.c:169  uint8_t rxData = UDR0;  buffer_put(&_uartBuffers[0], rxData);
USART0_RX_vect(rxData) ==
    /\ pc \in {"run", "halted"}
    /\ SREG_I
    /\ buffer_put(0, rxData, TRUE)

ISR_USART0_RX ==
    /\ USART0_RX_vect(RxByte)
    /\ UNCHANGED drvVars

Next ==
    \/ error_init
    \/ error_init_return
    \/ elob_init
    \/ Call
    \/ Return
    \/ Break
    \/ try
    \/ catch
    \/ HandlerEnd
    \/ throw
    \/ throwMessage
    \/ rethrow
    \/ rethrowMessage
    \/ ISR_USART0_RX

Spec == Init /\ [][Next]_vars

(***************************************************************************)
(* The same system with a client that never leaves a try body early: every *)
(* body ends in _closeTry or in a throw.  Used to tell what fails only     *)
(* after an early exit.                                                    *)
(***************************************************************************)
ReturnOutsideBody ==
    /\ Return
    /\ \A i \in BodyIdx(cstack) : i < Max(FnIdx(cstack))

NextWellNested ==
    \/ error_init
    \/ error_init_return
    \/ elob_init
    \/ Call
    \/ ReturnOutsideBody
    \/ try
    \/ catch
    \/ HandlerEnd
    \/ throw
    \/ throwMessage
    \/ rethrow
    \/ rethrowMessage
    \/ ISR_USART0_RX

SpecWellNested == Init /\ [][NextWellNested]_vars

(***************************************************************************)
(* Properties.                                                             *)
(***************************************************************************)
HandlerIdx(st) == { i \in DOMAIN st : st[i].kind = "try" /\ st[i].phase = "handler" }
HandlerIds(st) == { st[i].id : i \in HandlerIdx(st) }
\* the frame of the handler that the most recent throw started, if it is still on the stack
Landed(i) == i \in HandlerIdx(cstack) /\ cstack[i].id = lastThrow.handler

\* C1: a throw raised in the body of the innermost active scope transfers control to that
\* scope's handler and to no other handler.
C1_InnermostHandlerRuns ==
    lastThrow.phase = "body" => lastThrow.handler = lastThrow.inner

\* C2: whichever way control leaves a protected scope (normal completion, a throw landing
\* in it, return or break out of the body), the current jump target afterwards is the one
\* that was current before the scope was entered.
C2_TargetRestoredOnExit ==
    [][LET exited == { i \in BodyIdx(cstack) : cstack[i].id \notin BodyIds(cstack') }
       IN  exited # {} => _error_h_currentJmpBuf' = cstack[Min(exited)].prev]_vars

\* C3: the handler of a scope runs if and only if a throw occurred in the dynamic extent of
\* the scope's body and was not caught by a more deeply nested scope.
C3_HandlerIffThrownInBody ==
    [][/\ \A h \in HandlerIds(cstack') \ HandlerIds(cstack) :
             /\ lastThrow' # lastThrow
             /\ lastThrow'.handler = h
             /\ h = InnermostActive(cstack)
       /\ (lastThrow' # lastThrow /\ InnermostActive(cstack) > 0)
             => InnermostActive(cstack) \in HandlerIds(cstack')]_vars

\* C4: a throw raised inside a handler body is delivered to the next enclosing protected
\* scope, or to the fatal handler when there is none, and never to the scope whose
\* handler is running.
C4_ThrowInHandlerGoesOut ==
    lastThrow.phase = "handler" =>
        /\ lastThrow.handler = lastThrow.inner
        /\ lastThrow.handler # lastThrow.scope

\* C5: a throw raised while no protected scope is active reaches the fatal handler:
\* interrupts are disabled, the red LED is set, and the system stays halted with no
\* interrupt handler run and no FIFO change afterwards.
C5_UncaughtThrowHalts ==
    /\ [](lastThrow.inner = 0 =>
            (pc = "halted" /\ ~SREG_I /\ 5 \in PORTB /\ 6 \notin PORTB /\ 7 \notin PORTB))
    /\ [][pc = "halted" => (pc' = "halted" /\ _uartBuffers' = _uartBuffers)]_vars

\* C6: at every point after error_init has run, the current jump target refers to a saved
\* context whose enclosing function activation (and block) is still live.
C6_TargetAlwaysLive ==
    pc = "run" => Live(_error_h_currentJmpBuf, cstack)

\* C7: the code a handler observes is never 0, whatever code was passed to throw, and a
\* throw that lands in a scope never looks like the normal completion of its body.
C7_CodeNeverZero ==
    /\ \A i \in HandlerIdx(cstack) : cstack[i].errorCode # 0
    /\ (pc = "run" /\ lastThrow.target > 0) => lastThrow.handler = lastThrow.target

C7_Witness ==
    /\ pc = "run"
    /\ ToUnsignedInt(lastThrow.code) = 0
    /\ \E i \in DOMAIN cstack : Landed(i) /\ cstack[i].errorCode = 1

\* C8: the code, name and message a capturing handler receives are those of the throw
\* that landed in its scope (the most recent throw); after a throw without message the
\* message is null, never the message of an earlier throw.
C8_HandlerReceivesLatestThrow ==
    \A i \in DOMAIN cstack : Landed(i) =>
        /\ cstack[i].errorName = lastThrow.name
        /\ cstack[i].errorMessage = lastThrow.msg
        /\ (lastThrow.code \in 1..(IntWidth \div 2 - 1) => cstack[i].errorCode = lastThrow.code)

C8_Witness ==
    \E i, j \in HandlerIdx(cstack) :
        /\ j < i
        /\ Landed(i)
        /\ cstack[i].errorMessage = NullStr
        /\ cstack[j].errorMessage # NullStr

\* C9: when a capturing handler re-throws the error it caught, the enclosing scope's
\* handler receives the same code, the same symbolic name and the same message.
C9_RethrowPreservesError ==
    \A i \in DOMAIN cstack : (Landed(i) /\ lastThrow.rethrow) =>
        /\ cstack[i].errorCode = lastThrow.ocode
        /\ cstack[i].errorName = lastThrow.oname
        /\ cstack[i].errorMessage = lastThrow.omsg

\* C10: when the system is in the halt of the fatal handler, the symbolic name of the
\* thrown error has been written to the USB terminal, before the handler's own lines.
C10_NamePrintedBeforeHalt ==
    pc = "halted" =>
        /\ Len(usbOut) >= 3
        /\ usbOut[1] = lastThrow.name
        /\ usbOut[Len(usbOut)] = "Reset the board to continue operation."

C10_Witness ==
    /\ pc = "halted"
    /\ ~lastThrow.isr
    /\ lastThrow.msg = NullStr
    /\ lastThrow.name = "ERR_I2C_TRANSMISSION"

(***************************************************************************)
(* The receive FIFO and its reader.                                        *)
(*                                                                         *)
(* buffer_get is not one step: the main line runs it with interrupts       *)
(* enabled (neither buffer.c nor uart.c disables them), so the receive     *)
(* interrupt can run between any two of its statements, between the load   *)
(* and the store of buffer->size-- and between two bytes of memmove.       *)
(* reader.pc is the statement the main line executes next; tmp, data, n, k *)
(* are the loaded size, the local data, and the count and index of memmove.*)
(* The k-th byte handed to buffer_put has the value k, so that a lost, a   *)
(* repeated or a stale byte shows.                                         *)
(***************************************************************************)
MaxRx == 4               \* bytes handed to buffer_put in one run

\* what a read of the byte behind the storage of the FIFO can yield
Garbage == {0, 255}

errVars == <<pc, cstack, nextId, _error_h_currentJmpBuf, _error_h_setjmpReturnValue,
             _error_h_currentErrorName, _error_h_currentErrorMessage, SREG_I, PORTB,
             usbOut, lastThrow>>
logVars == <<written, returned, rxCount>>
baudVars == <<baudrate, U2X0, UBRR0>>

\* the unread bytes of a buffer: ptr[0 .. size-1]
Unread(buffer) == [j \in 1..buffer.size |-> buffer.ptr[j - 1]]

\* uart.c:142  uart_available
uart_available(uartInterface) == ~buffer_empty(_uartBuffers[uartInterface])

\* uart.c:160  uart_readByte is called
uart_readByte ==
    /\ pc = "run"
    /\ reader.pc = "idle"
    /\ reader' = [Idle EXCEPT !.pc = "wait", !.via = "uart_readByte"]
    /\ UNCHANGED <<errVars, _uartBuffers, logVars, baudVars>>
    /\ UNCHANGED periphVars

\* uart.c:161  while(!uart_available(uartInterface));
uart_readByte_wait ==
    /\ pc = "run"
    /\ reader.pc = "wait"
    /\ reader' = IF uart_available(0) THEN [reader EXCEPT !.pc = "check"] ELSE reader
    /\ UNCHANGED <<errVars, _uartBuffers, logVars, baudVars>>
    /\ UNCHANGED periphVars

\* buffer.c:28  buffer_get is called by the client itself
buffer_get ==
    /\ pc = "run"
    /\ reader.pc = "idle"
    /\ reader' = [Idle EXCEPT !.pc = "check", !.via = "buffer_get"]
    /\ UNCHANGED <<errVars, _uartBuffers, logVars, baudVars>>
    /\ UNCHANGED periphVars

\* buffer.c:29  if(buffer_empty(buffer)) throwMessage(ERR_BUFFER_OVERFLOW, ...)
buffer_get_check ==
    /\ pc = "run"
    /\ reader.pc = "check"
    /\ IF buffer_empty(_uartBuffers[0])
       THEN /\ _error_h_throwWithMessage(ERR_BUFFER_OVERFLOW, "ERR_BUFFER_OVERFLOW",
                   "buffer_get: Buffer empty.",
                   Thrown(ERR_BUFFER_OVERFLOW, "ERR_BUFFER_OVERFLOW", "buffer_get: Buffer empty."))
            /\ reader' = Idle
            /\ UNCHANGED <<logVars, baudVars>>
       ELSE /\ reader' = [reader EXCEPT !.pc = "load"]
            /\ UNCHANGED <<errVars, _uartBuffers, logVars, baudVars>>
    /\ UNCHANGED periphVars

\* buffer.c:34  buffer->size--;  the load
buffer_get_load ==
    /\ pc = "run"
    /\ reader.pc = "load"
    /\ reader' = [reader EXCEPT !.pc = "store", !.tmp = _uartBuffers[0].size]
    /\ UNCHANGED <<errVars, _uartBuffers, logVars, baudVars>>
    /\ UNCHANGED periphVars

\* buffer.c:34  buffer->size--;  the store (size_t is 16 bits wide)
buffer_get_store ==
    /\ pc = "run"
    /\ reader.pc = "store"
    /\ _uartBuffers' = [_uartBuffers EXCEPT ![0].size = ToUnsignedInt(reader.tmp - 1)]
    /\ reader' = [reader EXCEPT !.pc = "head"]
    /\ UNCHANGED <<errVars, logVars, baudVars>>
    /\ UNCHANGED periphVars

\* (variant: the newest byte is taken)
buffer_get_head_newest ==
    /\ pc = "run"
    /\ reader.pc = "head"
    /\ reader' = [reader EXCEPT !.pc = "memmove",
                                !.data = _uartBuffers[0].ptr[_uartBuffers[0].size]]
    /\ UNCHANGED <<errVars, _uartBuffers, logVars, baudVars>>
    /\ UNCHANGED periphVars

\* buffer.c:35  uint8_t data = buffer->ptr[0];
buffer_get_head ==
    /\ pc = "run"
    /\ reader.pc = "head"
    /\ reader' = [reader EXCEPT !.pc = "memmove", !.data = _uartBuffers[0].ptr[0]]
    /\ UNCHANGED <<errVars, _uartBuffers, logVars, baudVars>>
    /\ UNCHANGED periphVars

\* buffer.c:38  memmove(buffer->ptr, buffer->ptr + 1, buffer->size): the call
memmove ==
    /\ pc = "run"
    /\ reader.pc = "memmove"
    /\ reader' = [reader EXCEPT !.pc = "copy", !.n = _uartBuffers[0].size, !.k = 0]
    /\ UNCHANGED <<errVars, _uartBuffers, logVars, baudVars>>
    /\ UNCHANGED periphVars

\* one byte of the copy, front to back, or its end
memmove_copy ==
    /\ pc = "run"
    /\ reader.pc = "copy"
    /\ IF reader.k < reader.n
       THEN /\ \E g \in Garbage :
                 LET buffer == _uartBuffers[0]
                     src == IF reader.k + 1 < buffer.maxSize THEN buffer.ptr[reader.k + 1] ELSE g
                 IN  _uartBuffers' = [_uartBuffers EXCEPT ![0].ptr[reader.k] = src]
            /\ reader' = [reader EXCEPT !.k = reader.k + 1]
       ELSE /\ reader' = [reader EXCEPT !.pc = "return"]
            /\ UNCHANGED _uartBuffers
    /\ UNCHANGED <<errVars, logVars, baudVars>>
    /\ UNCHANGED periphVars

\* buffer.c:40  return data;  (and uart.c:163)
buffer_get_return ==
    /\ pc = "run"
    /\ reader.pc = "return"
    /\ returned' = Append(returned, reader.data)
    /\ reader' = Idle
    /\ UNCHANGED <<errVars, _uartBuffers, written, rxCount, baudVars>>
    /\ UNCHANGED periphVars

\* buffer.c:43  buffer_clear
buffer_clear ==
    /\ pc = "run"
    /\ reader.pc = "idle"
    /\ _uartBuffers' = [_uartBuffers EXCEPT ![0].size = 0]
    /\ written' = returned
    /\ UNCHANGED <<errVars, reader, returned, rxCount, baudVars>>
    /\ UNCHANGED periphVars

\* the client outside uart_readByte and buffer_get; it does not nest its protected scopes
ClientInit == reader.pc = "idle" /\ elob_init
ClientTry == reader.pc = "idle" /\ cstack = << >> /\ try
ClientCatch == reader.pc = "idle" /\ catch
ClientHandlerEnd == reader.pc = "idle" /\ HandlerEnd

\* a byte arrives and the receive interrupt stores it; a throw ends whatever the main line
\* was in the middle of
USART0_RX ==
    /\ rxCount < MaxRx
    /\ USART0_RX_vect(rxCount + 1)
    /\ rxCount' = rxCount + 1
    /\ written' = IF buffer_full(_uartBuffers[0]) THEN written ELSE Append(written, rxCount + 1)
    /\ reader' = IF buffer_full(_uartBuffers[0]) THEN Idle ELSE reader
    /\ UNCHANGED <<returned, baudVars>>
    /\ UNCHANGED periphVars

NextUart ==
    \/ error_init
    \/ error_init_return
    \/ ClientInit
    \/ ClientTry
    \/ ClientCatch
    \/ ClientHandlerEnd
    \/ USART0_RX
    \/ uart_readByte
    \/ uart_readByte_wait
    \/ buffer_get
    \/ buffer_get_check
    \/ buffer_get_load
    \/ buffer_get_store
    \/ buffer_get_head
    \/ memmove
    \/ memmove_copy
    \/ buffer_get_return
    \/ buffer_clear

SpecUart == Init /\ [][NextUart]_vars

(***************************************************************************)
(* The reader alone with the receive interrupt, and fairness: the main     *)
(* line executes its next statement whenever no interrupt handler runs, so *)
(* a statement of uart_readByte that stays enabled is eventually executed. *)
(* Nothing obliges a byte to arrive.                                       *)
(***************************************************************************)
ReaderStep ==
    \/ uart_readByte_wait
    \/ buffer_get_check
    \/ buffer_get_load
    \/ buffer_get_store
    \/ buffer_get_head
    \/ memmove
    \/ memmove_copy
    \/ buffer_get_return

NextRead ==
    \/ error_init
    \/ error_init_return
    \/ ClientInit
    \/ USART0_RX
    \/ uart_readByte
    \/ uart_readByte_wait
    \/ buffer_get_check
    \/ buffer_get_load
    \/ buffer_get_store
    \/ buffer_get_head
    \/ memmove
    \/ memmove_copy
    \/ buffer_get_return

SpecUartFair == Init /\ [][NextRead]_vars /\ WF_vars(ReaderStep)

(***************************************************************************)
(* A Buffer_t with the main line as its only user: the client calls        *)
(* buffer_put, buffer_get and buffer_clear one after the other, interrupts *)
(* are off (elob_init is not called).                                      *)
(***************************************************************************)
ClientPut ==
    /\ pc = "run"
    /\ reader.pc = "idle"
    /\ ~SREG_I
    /\ rxCount < MaxRx
    /\ buffer_put(0, rxCount + 1, FALSE)
    /\ rxCount' = rxCount + 1
    /\ written' = IF buffer_full(_uartBuffers[0]) THEN written ELSE Append(written, rxCount + 1)
    /\ UNCHANGED <<reader, returned, baudVars>>
    /\ UNCHANGED periphVars

NextBuffer ==
    \/ error_init
    \/ error_init_return
    \/ ClientTry
    \/ ClientCatch
    \/ ClientHandlerEnd
    \/ ClientPut
    \/ buffer_get
    \/ buffer_get_check
    \/ buffer_get_load
    \/ buffer_get_store
    \/ buffer_get_head
    \/ memmove
    \/ memmove_copy
    \/ buffer_get_return
    \/ buffer_clear

SpecBuffer == Init /\ [][NextBuffer]_vars

(***************************************************************************)
(* uart.c:119  uart_setBaudrate.                                           *)
(*                                                                         *)
(* The code computes in float; the model computes the same values with     *)
(* integers: for k = 16 (normal speed) and k = 8 (double speed)            *)
(*   ubrrValue           = F_CPU / (k * baudrate) - 1                      *)
(*   round(ubrrValue)    = (F_CPU + (k/2) * baudrate) \div (k * baudrate) - 1 *)
(*   (signed long)(F_CPU / (k * (round(ubrrValue) + 1)) - baudrate)        *)
(*                       = the quotient truncated towards zero             *)
(* abs is int abs(int) of avr-libc: its argument is converted to the       *)
(* 16-bit int.                                                             *)
(***************************************************************************)
F_CPU == 16000000
BaudStep == 3600         \* the requested rates are the usual ones and the multiples of BaudStep
MaxBaudSteps == 270

StandardBauds == {300, 600, 1200, 2400, 4800, 9600, 14400, 19200, 28800, 38400, 57600,
                  76800, 115200, 230400, 250000, 500000, 1000000}
\* the rates next to the two limits of the code, F_CPU / (16 * 2048) and F_CPU / (8 * 2048)
EdgeBauds == {488, 489, 976, 977}
Bauds == StandardBauds \cup EdgeBauds \cup { BaudStep * k : k \in 1..MaxBaudSteps }

\* num / den > lim, for positive integers
Exceeds(num, den, lim) == num \div den > lim \/ (num \div den = lim /\ num % den # 0)
\* (signed long)(num / den), den > 0
TruncDiv(num, den) == IF num >= 0 THEN num \div den ELSE -((-num) \div den)
\* abs((signed long)x): the argument is converted to int
abs(x) == LET i == ToInt(ToUnsignedInt(x)) IN IF i < 0 /\ i # -(IntWidth \div 2) THEN -i ELSE i

\* round(ubrrValue2X) for k = 8, round(ubrrValue1X) for k = 16
RoundedUbrr(k, baud) == (F_CPU + (k \div 2) * baud) \div (k * baud) - 1
\* uart.c:130, 131  diff2X (k = 8), diff1X (k = 16)
Diff(k, baud) ==
    LET n == k * (RoundedUbrr(k, baud) + 1) IN abs(TruncDiv(F_CPU - n * baud, n))
\* (variant: double speed also when the two differences are equal)
useDoubleSpeedMode_onTies(baud) ==
    /\ Diff(8, baud) <= Diff(16, baud)
    /\ F_CPU \div (8 * baud) < 2048
\* uart.c:134
useDoubleSpeedMode(baud) ==
    /\ Diff(8, baud) < Diff(16, baud)
    /\ F_CPU \div (8 * baud) < 2048          \* ubrrValue2X < 2047
\* uart.c:135  uint16_t ubrrValue
ubrrValue(baud) ==
    ToUnsignedInt(IF useDoubleSpeedMode(baud) THEN RoundedUbrr(8, baud) ELSE RoundedUbrr(16, baud))

\* (variant: the limit of a 12-bit register)
BitrateTooLow_12bit(baud) == Exceeds(F_CPU, 16 * baud, 4096)
\* uart.c:124  ubrrValue1X > 2047
BitrateTooLow(baud) == Exceeds(F_CPU, 16 * baud, 2048)

\* uart.c:125  throwMessage(ERR_BITRATE_TOO_LOW, ...)
ThrowBitrateTooLow ==
    _error_h_throwWithMessage(ERR_BITRATE_TOO_LOW, "ERR_BITRATE_TOO_LOW",
        "uart_setBaudrate: The specified baudrate is too low.",
        Thrown(ERR_BITRATE_TOO_LOW, "ERR_BITRATE_TOO_LOW",
               "uart_setBaudrate: The specified baudrate is too low."))

\* uart.c:137-139  the three register writes
WriteBaudRegisters(baud) ==
    /\ U2X0' = useDoubleSpeedMode(baud)
    /\ UBRR0' = [L |-> ubrrValue(baud) % 256, H |-> ubrrValue(baud) \div 256]

uart_setBaudrate ==
    /\ pc = "run"
    /\ reader.pc = "idle"
    /\ \E baud \in Bauds :
         /\ baudrate' = baud
         /\ IF BitrateTooLow(baud)
            THEN /\ ThrowBitrateTooLow
                 /\ UNCHANGED <<U2X0, UBRR0>>
            ELSE /\ WriteBaudRegisters(baud)
                 /\ UNCHANGED <<errVars, _uartBuffers>>
    /\ UNCHANGED <<reader, logVars>>
    /\ UNCHANGED periphVars

\* the arguments of uart_init (uart.h): UART_ParityMode_t, UART_StopBitMode_t,
\* UART_ClockPolarityMode_t
InitBauds == EdgeBauds \cup {300, 9600, 1000000}
ParityModes == {0, 2, 3}
StopBitModes == {0, 1}
ClockPolarityModes == {0, 1}

\* uart.c:80  uart_init: uart_setBaudrate first, then the control registers and sei()
uart_init ==
    /\ pc = "run"
    /\ reader.pc = "idle"
    /\ \E baud \in InitBauds, parityMode \in ParityModes, stopbitMode \in StopBitModes,
          clockPolarityMode \in ClockPolarityModes :
         /\ baudrate' = baud
         /\ IF BitrateTooLow(baud)
            THEN /\ ThrowBitrateTooLow
                 /\ UNCHANGED <<U2X0, UBRR0, UCSR0B, UCSR0C>>
            ELSE /\ WriteBaudRegisters(baud)
                 /\ UCSR0B' = CLEARBIT(SETBIT(SETBIT(CLEARBIT(CLEARBIT(SETBIT(UCSR0B,
                                  "RXCIE0"), "TXCIE0"), "UDRIE0"), "RXEN0"), "TXEN0"), "UCSZ02")
                 /\ SREG_I' = TRUE
                 /\ UCSR0C' = WRITEBIT(WRITEBIT(WRITEBIT(WRITEBIT(
                                  CLEARBIT(CLEARBIT(SETBIT(SETBIT(UCSR0C, "UCSZ00"), "UCSZ01"),
                                           "UMSEL00"), "UMSEL01"),
                                  "USBS0", stopbitMode), "UCPOL0", clockPolarityMode),
                                  "UPM00", CHECKBIT(parityMode, 0)), "UPM01", CHECKBIT(parityMode, 1))
                 /\ UNCHANGED <<pc, cstack, nextId, _error_h_currentJmpBuf,
                                _error_h_setjmpReturnValue, _error_h_currentErrorName,
                                _error_h_currentErrorMessage, PORTB, usbOut, lastThrow,
                                _uartBuffers>>
    /\ UNCHANGED <<reader, logVars, UDRE0, udrWrites, sender, twiVars, dtVars, rtc, moreVars>>

NextBaud ==
    \/ error_init
    \/ error_init_return
    \/ uart_setBaudrate

SpecBaud == Init /\ [][NextBaud]_vars

\* a client that calls uart_init inside and outside of try blocks
NextUartInit ==
    \/ error_init
    \/ error_init_return
    \/ ClientTry
    \/ ClientCatch
    \/ ClientHandlerEnd
    \/ uart_init

SpecUartInit == Init /\ [][NextUartInit]_vars

(***************************************************************************)
(* uart.c:146  uart_sendByte, uart.c:152  uart_sendString.                 *)
(*                                                                         *)
(* sender is the position of the main line in uart_sendString(UART0, s):   *)
(* s is the memory from the address passed on, up to and including a null  *)
(* byte (there may be further nulls before the last one), i is the loop    *)
(* counter.  udrWrites lists the values the current call has written to    *)
(* UDR0.  UDRE0 is the flag of UCSR0A: the hardware clears it when UDR0 is *)
(* written and sets it when the transmitter has taken the byte.            *)
(***************************************************************************)
MaxStrLen == 3           \* characters of a string, the final null byte not counted
Chars == {0, 72, 105}
Strings == UNION { { Append(t, 0) : t \in [1..n -> Chars] } : n \in 0..MaxStrLen }

notSendVars == <<errVars, _uartBuffers, reader, logVars, baudVars, ctrlVars, twiVars, dtVars, rtc,
                 moreVars>>

\* uart.c:152  the call
uart_sendString ==
    /\ sender.pc = "idle"
    /\ \E s \in Strings : sender' = [pc |-> "loop", s |-> s, i |-> 0]
    /\ udrWrites' = << >>
    /\ UNCHANGED <<UDRE0, notSendVars>>

\* (variant: the loop ends at the end of the memory, not at the first null byte)
uart_sendString_loop_toEnd ==
    /\ sender.pc = "loop"
    /\ sender' = [sender EXCEPT !.pc = IF sender.i < Len(sender.s) THEN "wait" ELSE "return"]
    /\ UNCHANGED <<UDRE0, udrWrites, notSendVars>>
\* uart.c:153  s[i] != 0
uart_sendString_loop ==
    /\ sender.pc = "loop"
    /\ sender' = [sender EXCEPT !.pc = IF sender.s[sender.i + 1] # 0 THEN "wait" ELSE "return"]
    /\ UNCHANGED <<UDRE0, udrWrites, notSendVars>>

\* uart.c:148  while(!CHECKBIT(UCSR0A, UDRE0)); one reading of the flag that finds it set
uart_sendByte ==
    /\ sender.pc = "wait"
    /\ UDRE0
    /\ sender' = [sender EXCEPT !.pc = "write"]
    /\ UNCHANGED <<UDRE0, udrWrites, notSendVars>>

\* uart.c:149  UDR0 = data, and i++ of uart.c:153
uart_sendByte_write ==
    /\ sender.pc = "write"
    /\ udrWrites' = Append(udrWrites, sender.s[sender.i + 1])
    /\ UDRE0' = FALSE
    /\ sender' = [sender EXCEPT !.pc = "loop", !.i = sender.i + 1]
    /\ UNCHANGED notSendVars

\* uart.c:158  return
uart_sendString_return ==
    /\ sender.pc = "return"
    /\ sender' = NotSending
    /\ UNCHANGED <<UDRE0, udrWrites, notSendVars>>

\* the transmitter moves UDR0 to its shift register
UDR0_taken ==
    /\ ~UDRE0
    /\ UDRE0' = TRUE
    /\ UNCHANGED <<udrWrites, sender, notSendVars>>

NextSend ==
    \/ uart_sendString
    \/ uart_sendString_loop
    \/ uart_sendByte
    \/ uart_sendByte_write
    \/ uart_sendString_return
    \/ UDR0_taken

SpecSend == Init /\ [][NextSend]_vars

(***************************************************************************)
(* i2c_master.c: the TWI master driver.                                    *)
(*                                                                         *)
(* Each _TWINT_RESET_AWAIT is one action on the bus.  What the hardware    *)
(* reports when TWINT is set again, the status TWSR & 0xF8 and the write   *)
(* collision flag TWWC, is an input: any of the codes of                   *)
(* i2c_masterStatus_t or a code outside of it, and any value of the flag.  *)
(* twiLog lists the bus actions with what was reported for each; twiCall   *)
(* is the last call of a driver function, with its arguments and its       *)
(* outcome, "returned" or "thrown".                                        *)
(***************************************************************************)
I2C_MASTER_START_CONDITION_TRANSMITTED == 8
I2C_MASTER_REAPEATED_START_CONDITION_TRANSMITTED == 16
I2C_MASTER_SLAW_ACK == 24
I2C_MASTER_SLAW_NACK == 32
I2C_MASTER_DATA_SENT_ACK == 40
I2C_MASTER_DATA_SENT_NACK == 48
I2C_MASTER_ARBITRATION_LOST == 56
I2C_MASTER_SLAR_ACK == 64
I2C_MASTER_SLAR_NACK == 72
I2C_MASTER_DATA_RECEIVED_ACK == 80
I2C_MASTER_DATA_RECEIVED_NACK == 88
I2C_MASTER_NO_STATUS == 248
I2C_BUS_ERROR == 0
I2C_WRITE == 0
I2C_READ == 1
I2C_NACK == 0
I2C_ACK == 1

\* the values of TWSR & 0xF8 the hardware reports: the codes of the enumeration and one
\* code of the slave modes (0x60)
StatusCodes ==
    { I2C_MASTER_START_CONDITION_TRANSMITTED, I2C_MASTER_REAPEATED_START_CONDITION_TRANSMITTED,
      I2C_MASTER_SLAW_ACK, I2C_MASTER_SLAW_NACK, I2C_MASTER_DATA_SENT_ACK,
      I2C_MASTER_DATA_SENT_NACK, I2C_MASTER_ARBITRATION_LOST, I2C_MASTER_SLAR_ACK,
      I2C_MASTER_SLAR_NACK, I2C_MASTER_DATA_RECEIVED_ACK, I2C_MASTER_DATA_RECEIVED_NACK,
      I2C_MASTER_NO_STATUS, I2C_BUS_ERROR, 96 }

notTwiVars == <<reader, logVars, baudVars, ctrlVars, UDRE0, udrWrites, sender, TWBR, TWSR, bitrate,
                dtVars, rtc, moreVars>>

\* an entry of twiLog: the action, the byte on the bus (for a reception with the
\* acknowledge bit TWEA that was programmed), the status and the collision flag reported
BusAction(op, data, ack, status, twwc) ==
    [op |-> op, data |-> data, ack |-> ack, status |-> status, twwc |-> twwc]

\* throwMessage(ERR_I2C_TRANSMISSION, msg)
I2CThrow(msg) ==
    _error_h_throwWithMessage(ERR_I2C_TRANSMISSION, "ERR_I2C_TRANSMISSION", msg,
        Thrown(ERR_I2C_TRANSMISSION, "ERR_I2C_TRANSMISSION", msg))

\* i2c_master.c:70  i2c_master_checkStatus: it throws, with this message
i2c_master_checkStatus_throws(status, twwc) == status = I2C_BUS_ERROR \/ twwc
i2c_master_checkStatus_message(status) ==
    IF status = I2C_BUS_ERROR THEN "i2c_master_checkStatus: Bus error reported."
    ELSE "i2c_master_checkStatus: Write collision detected."

\* (variant: any status passes as a start condition)
StartFailed_never(status) == FALSE
\* i2c_master.c:103  the test after the start condition
StartFailed(status) ==
    /\ status # I2C_MASTER_START_CONDITION_TRANSMITTED
    /\ status # I2C_MASTER_REAPEATED_START_CONDITION_TRANSMITTED
\* i2c_master.c:118  the test after SLA+R/W
AddressFailed(status) == status # I2C_MASTER_SLAR_ACK /\ status # I2C_MASTER_SLAW_ACK
\* (variant: a NACK passes)
SendFailed_nackPasses(status) ==
    status # I2C_MASTER_DATA_SENT_ACK /\ status # I2C_MASTER_DATA_SENT_NACK
\* i2c_master.c:88  the test after the data byte
SendFailed(status) == status # I2C_MASTER_DATA_SENT_ACK
\* i2c_master.c:134  the test after the reception
ReadFailed(status) ==
    status # I2C_MASTER_DATA_RECEIVED_ACK /\ status # I2C_MASTER_DATA_RECEIVED_NACK

\* uint8_t addressRWByte = slaveAddress << 1; addressRWByte |= direction;
\* bit 0 of the shifted value is 0 and direction is 0 or 1
addressRWByte(slaveAddress, direction) == ((slaveAddress * 2) % 256) + direction

\* i2c_master.c:97  i2c_master_startFrame, continuing the log from log; Returns and
\* Throws say what else holds of the step when the function returns and when it throws
i2c_master_startFrame(log, slaveAddress, direction, Returns, Throws) ==
    \E status1 \in StatusCodes, twwc1 \in BOOLEAN :
      LET log1 == Append(log, BusAction("START", 0, 0, status1, twwc1)) IN
        IF i2c_master_checkStatus_throws(status1, twwc1) \/ StartFailed(status1)
        THEN /\ TWCR' = SETBIT(TWCR, "TWSTA") \ {"TWSTO"}
             /\ twiLog' = log1
             /\ UNCHANGED TWDR
             /\ IF i2c_master_checkStatus_throws(status1, twwc1)
                THEN I2CThrow(i2c_master_checkStatus_message(status1))
                ELSE I2CThrow("i2c_master_startFrame: Failed to generate start condition.")
             /\ Throws
        ELSE \E status2 \in StatusCodes, twwc2 \in BOOLEAN :
             /\ TWDR' = addressRWByte(slaveAddress, direction)
             /\ TWCR' = CLEARBIT(SETBIT(TWCR, "TWSTA"), "TWSTA") \ {"TWSTO"}
             /\ twiLog' = Append(log1, BusAction("TX", addressRWByte(slaveAddress, direction), 0,
                                                 status2, twwc2))
             /\ IF i2c_master_checkStatus_throws(status2, twwc2)
                THEN I2CThrow(i2c_master_checkStatus_message(status2)) /\ Throws
                ELSE IF AddressFailed(status2)
                THEN I2CThrow("i2c_master_startFrame: Failed to send SLA+R/W.") /\ Throws
                ELSE UNCHANGED <<errVars, _uartBuffers>> /\ Returns

\* i2c_master.c:81  i2c_master_sendByte
i2c_master_sendByte(log, data, Returns, Throws) ==
    \E status \in StatusCodes, twwc \in BOOLEAN :
        /\ TWDR' = data
        /\ TWCR' = TWCR \ {"TWSTO"}
        /\ twiLog' = Append(log, BusAction("TX", data, 0, status, twwc))
        /\ IF i2c_master_checkStatus_throws(status, twwc)
           THEN I2CThrow(i2c_master_checkStatus_message(status)) /\ Throws
           ELSE IF SendFailed(status)
           THEN /\ IF status = I2C_MASTER_DATA_SENT_NACK
                   THEN I2CThrow("i2c_master_sendByte: Data sent, NACK received.")
                   ELSE I2CThrow("i2c_master_sendByte: Data sent, status invalid.")
                /\ Throws
           ELSE UNCHANGED <<errVars, _uartBuffers>> /\ Returns

\* i2c_master.c:124  i2c_master_readByte; received is the byte the hardware has put into
\* TWDR, Returns may refer to the value returned as twiData'
i2c_master_readByte(log, ackType, received, Returns, Throws) ==
    \E status \in StatusCodes, twwc \in BOOLEAN :
        /\ TWCR' = WRITEBIT(TWCR, "TWEA", ackType) \ {"TWSTO"}
        /\ TWDR' = received
        /\ twiLog' = Append(log, BusAction("RX", received, ackType, status, twwc))
        /\ IF i2c_master_checkStatus_throws(status, twwc)
           THEN I2CThrow(i2c_master_checkStatus_message(status)) /\ UNCHANGED twiData /\ Throws
           ELSE IF ReadFailed(status)
           THEN /\ I2CThrow("i2c_master_readByte: Failed to read message from I2C.")
                /\ UNCHANGED twiData
                /\ Throws
           ELSE /\ UNCHANGED <<errVars, _uartBuffers>>
                /\ twiData' = received
                /\ Returns

\* i2c_master.c:142  i2c_master_endFrame: no status is read
i2c_master_endFrame(log) ==
    /\ TWCR' = SETBIT(TWCR, "TWSTO")
    /\ twiLog' = Append(log, BusAction("STOP", 0, 0, I2C_MASTER_NO_STATUS, FALSE))
    /\ UNCHANGED <<TWDR, errVars, _uartBuffers>>

(***************************************************************************)
(* A client that calls the four functions in any order, outside of try     *)
(* blocks; twiLog is restarted at each call.                               *)
(***************************************************************************)
SlaveAddresses == {104, 127}
DataBytes == {0, 165}

ClientMayCall ==
    /\ pc = "run"
    /\ reader.pc = "idle" /\ sender.pc = "idle" /\ ds.pc = "idle"

DriverCall(fn, arg, direction, outcome) ==
    [fn |-> fn, arg |-> arg, direction |-> direction, outcome |-> outcome]

ClientStartFrame ==
    /\ ClientMayCall
    /\ \E slaveAddress \in SlaveAddresses, direction \in {I2C_WRITE, I2C_READ} :
         i2c_master_startFrame(<< >>, slaveAddress, direction,
             twiCall' = DriverCall("startFrame", slaveAddress, direction, "returned"),
             twiCall' = DriverCall("startFrame", slaveAddress, direction, "thrown"))
    /\ UNCHANGED <<twiData, ds, registerTable, notTwiVars>>

ClientSendByte ==
    /\ ClientMayCall
    /\ \E data \in DataBytes :
         i2c_master_sendByte(<< >>, data,
             twiCall' = DriverCall("sendByte", data, 0, "returned"),
             twiCall' = DriverCall("sendByte", data, 0, "thrown"))
    /\ UNCHANGED <<twiData, ds, registerTable, notTwiVars>>

ClientReadByte ==
    /\ ClientMayCall
    /\ \E ackType \in {I2C_NACK, I2C_ACK}, received \in DataBytes :
         i2c_master_readByte(<< >>, ackType, received,
             twiCall' = DriverCall("readByte", ackType, 0, "returned"),
             twiCall' = DriverCall("readByte", ackType, 0, "thrown"))
    /\ UNCHANGED <<ds, registerTable, notTwiVars>>

ClientEndFrame ==
    /\ ClientMayCall
    /\ i2c_master_endFrame(<< >>)
    /\ twiCall' = DriverCall("endFrame", 0, 0, "returned")
    /\ UNCHANGED <<twiData, ds, registerTable, notTwiVars>>

NextI2C ==
    \/ error_init
    \/ error_init_return
    \/ ClientStartFrame
    \/ ClientSendByte
    \/ ClientReadByte
    \/ ClientEndFrame

SpecI2C == Init /\ [][NextI2C]_vars

(***************************************************************************)
(* ds1307.c:35  DS1307_getAllRegisters(registerTable).                     *)
(*                                                                         *)
(* ds is the position of the main line in the function and the loop        *)
(* counter; one step is one call of a driver function.  twiLog lists the   *)
(* bus actions of the current call of DS1307_getAllRegisters.  The byte    *)
(* the device delivers for register k is FirstByte + k.  A throw leaves    *)
(* the function; nothing catches it here.                                  *)
(***************************************************************************)
_DS1307_I2C_ADDR == 104
FirstByte == 16

DS1307Leaves == ds' = NotReading
DS1307Unchanged == UNCHANGED <<notTwiVars>>

\* ds1307.c:35  the call
DS1307_getAllRegisters ==
    /\ pc = "run"
    /\ reader.pc = "idle" /\ sender.pc = "idle" /\ ds.pc = "idle"
    /\ ds' = [pc |-> "startWrite", registerAddress |-> 0]
    /\ twiLog' = << >>
    /\ UNCHANGED <<TWCR, TWDR, twiData, twiCall, registerTable, errVars, _uartBuffers>>
    /\ DS1307Unchanged

\* ds1307.c:36
DS1307_startWrite ==
    /\ ds.pc = "startWrite"
    /\ i2c_master_startFrame(twiLog, _DS1307_I2C_ADDR, I2C_WRITE,
            /\ twiCall' = DriverCall("startFrame", _DS1307_I2C_ADDR, I2C_WRITE, "returned")
            /\ ds' = [ds EXCEPT !.pc = "sendPointer"],
            /\ twiCall' = DriverCall("startFrame", _DS1307_I2C_ADDR, I2C_WRITE, "thrown")
            /\ DS1307Leaves)
    /\ UNCHANGED <<twiData, registerTable>>
    /\ DS1307Unchanged

\* ds1307.c:37
DS1307_sendPointer ==
    /\ ds.pc = "sendPointer"
    /\ i2c_master_sendByte(twiLog, 0,
            /\ twiCall' = DriverCall("sendByte", 0, 0, "returned")
            /\ ds' = [ds EXCEPT !.pc = "startRead"],
            /\ twiCall' = DriverCall("sendByte", 0, 0, "thrown")
            /\ DS1307Leaves)
    /\ UNCHANGED <<twiData, registerTable>>
    /\ DS1307Unchanged

\* ds1307.c:38, and int registerAddress = 0 of ds1307.c:41
DS1307_startRead ==
    /\ ds.pc = "startRead"
    /\ i2c_master_startFrame(twiLog, _DS1307_I2C_ADDR, I2C_READ,
            /\ twiCall' = DriverCall("startFrame", _DS1307_I2C_ADDR, I2C_READ, "returned")
            /\ ds' = [pc |-> "read", registerAddress |-> 0],
            /\ twiCall' = DriverCall("startFrame", _DS1307_I2C_ADDR, I2C_READ, "thrown")
            /\ DS1307Leaves)
    /\ UNCHANGED <<twiData, registerTable>>
    /\ DS1307Unchanged

\* (variant: every byte is acknowledged)
AckTypeOf_alwaysAck(registerAddress) == I2C_ACK
\* ds1307.c:43  registerAddress < 7 ? I2C_ACK : I2C_NACK
AckTypeOf(registerAddress) == IF registerAddress < 7 THEN I2C_ACK ELSE I2C_NACK

\* ds1307.c:41-45  one pass of the loop, up to the test registerAddress < 8
DS1307_readRegister ==
    /\ ds.pc = "read"
    /\ i2c_master_readByte(twiLog, AckTypeOf(ds.registerAddress), FirstByte + ds.registerAddress,
            /\ twiCall' = DriverCall("readByte", AckTypeOf(ds.registerAddress), 0, "returned")
            /\ registerTable' = [registerTable EXCEPT ![ds.registerAddress] = twiData']
            /\ ds' = [pc |-> IF ds.registerAddress + 1 < 8 THEN "read" ELSE "endFrame",
                       registerAddress |-> ds.registerAddress + 1],
            /\ twiCall' = DriverCall("readByte", AckTypeOf(ds.registerAddress), 0, "thrown")
            /\ UNCHANGED registerTable
            /\ DS1307Leaves)
    /\ DS1307Unchanged

\* ds1307.c:47
DS1307_endFrame ==
    /\ ds.pc = "endFrame"
    /\ i2c_master_endFrame(twiLog)
    /\ twiCall' = DriverCall("endFrame", 0, 0, "returned")
    /\ ds' = [ds EXCEPT !.pc = "return"]
    /\ UNCHANGED <<twiData, registerTable>>
    /\ DS1307Unchanged

\* ds1307.c:48
DS1307_return ==
    /\ ds.pc = "return"
    /\ ds' = NotReading
    /\ UNCHANGED <<TWCR, TWDR, twiLog, twiData, twiCall, registerTable, errVars, _uartBuffers>>
    /\ DS1307Unchanged

NextDS1307 ==
    \/ error_init
    \/ error_init_return
    \/ DS1307_getAllRegisters
    \/ DS1307_startWrite
    \/ DS1307_sendPointer
    \/ DS1307_startRead
    \/ DS1307_readRegister
    \/ DS1307_endFrame
    \/ DS1307_return

SpecDS1307 == Init /\ [][NextDS1307]_vars

(***************************************************************************)
(* i2c_master.c:30  i2c_master_setBitrate, ds1307.c:19  DS1307_init.       *)
(*                                                                         *)
(* The code computes twbrValue in float; the model computes with integers: *)
(* the dividers pow(4, prescalers[prescalerID]) * 2.0 are powers of two,   *)
(* 8 and 512 for prescalerID 0 and 1; for prescalerID 2 and 3 they are     *)
(* 2^33 and more (infinite in float for 3), and the quotient of any        *)
(* F_CPU / bitrate - 16 with bitrate >= 1 is then below 1.  The requested  *)
(* rates are 1 Hz to 1 MHz = F_CPU / 16, the highest rate of the hardware, *)
(* so that F_CPU / bitrate - 16 is not negative.                           *)
(***************************************************************************)
BitrateStep == 100       \* the requested rates are some marked ones and the multiples of BitrateStep
MaxBitrateSteps == 120
UINT8_MAX == 255
TWPS0 == 0
TWPS1 == 1

RECURSIVE BitAnd(_, _)
BitAnd(a, b) == IF a = 0 \/ b = 0 THEN 0 ELSE (a % 2) * (b % 2) + 2 * BitAnd(a \div 2, b \div 2)
RECURSIVE BitOr(_, _)
BitOr(a, b) ==
    IF a = 0 /\ b = 0 THEN 0
    ELSE (IF a % 2 = 1 \/ b % 2 = 1 THEN 1 ELSE 0) + 2 * BitOr(a \div 2, b \div 2)

\* i2c_master.c:31
prescalers == <<1, 4, 16, 64>>
MarkedBitrates == {1, 122, 123, 489, 490, 7782, 7783, 10000, 30418, 30419, 100000, 400000, 1000000}
Bitrates == MarkedBitrates \cup { BitrateStep * k : k \in 1..MaxBitrateSteps }

\* pow(4, prescalers[prescalerID]) * 2.0 for prescalerID (counted from 0) 0 and 1
Divider(prescalerID) == (4 ^ prescalers[prescalerID + 1]) * 2
\* i2c_master.c:48, then the test twbrValue > UINT8_MAX of i2c_master.c:40
TwbrTooBig(prescalerID, rate) ==
    prescalerID <= 1 /\ Exceeds(F_CPU, rate, UINT8_MAX * Divider(prescalerID) + 16)
\* i2c_master.c:48, converted to uint8_t by TWBR = twbrValue
TwbrValue(prescalerID, rate) ==
    IF prescalerID <= 1 THEN TruncDiv(F_CPU - 16 * rate, Divider(prescalerID) * rate) ELSE 0
\* the prescalerID with which the last twbrValue was computed when the loop ends, 4 when
\* the loop is left by the throw of i2c_master.c:44
LastPrescalerID(rate) ==
    IF \A k \in 0..3 : TwbrTooBig(k, rate) THEN 4
    ELSE Min({ k \in 0..3 : ~TwbrTooBig(k, rate) })

\* i2c_master.c:30  i2c_master_setBitrate(rate): the throw or the two register writes;
\* prescalerID has been incremented once more when the loop ends
setBitrate(rate) ==
    /\ bitrate' = rate
    /\ IF LastPrescalerID(rate) = 4
       THEN /\ _error_h_throwWithMessage(ERR_BITRATE_TOO_LOW, "ERR_BITRATE_TOO_LOW",
                   "i2c_master_setBitrate: Bitrate too low.",
                   Thrown(ERR_BITRATE_TOO_LOW, "ERR_BITRATE_TOO_LOW",
                          "i2c_master_setBitrate: Bitrate too low."))
            /\ UNCHANGED <<TWBR, TWSR>>
       ELSE /\ TWBR' = TwbrValue(LastPrescalerID(rate), rate) % 256
            /\ TWSR' = BitAnd(BitOr(TWPS0, TWPS1), LastPrescalerID(rate) + 1)
            /\ UNCHANGED <<errVars, _uartBuffers>>

notBitrateVars == <<reader, logVars, baudVars, ctrlVars, UDRE0, udrWrites, sender,
                    TWDR, twiLog, twiData, twiCall, ds, registerTable, dtVars, rtc, moreVars>>

i2c_master_setBitrate ==
    /\ pc = "run"
    /\ \E rate \in Bitrates : setBitrate(rate)
    /\ UNCHANGED <<TWCR, notBitrateVars>>

\* i2c_master.c:56  i2c_master_enable
i2c_master_enable == TWCR' = CLEARBIT(SETBIT(SETBIT(TWCR, "TWEN"), "TWEA"), "TWIE")

\* ds1307.c:19  DS1307_init
DS1307_init ==
    /\ pc = "run"
    /\ setBitrate(10000)
    /\ IF LastPrescalerID(10000) = 4 THEN UNCHANGED TWCR ELSE i2c_master_enable
    /\ UNCHANGED notBitrateVars

NextBitrate ==
    \/ error_init
    \/ error_init_return
    \/ i2c_master_setBitrate
    \/ DS1307_init

SpecBitrate == Init /\ [][NextBitrate]_vars

(***************************************************************************)
(* ds1307.c:69  DS1307_getDatetime, ds1307.c:112  DS1307_setDatetime: the  *)
(* conversions between time_t, struct tm and the register image.           *)
(*                                                                         *)
(* time_t of avr-libc counts the seconds since 2000-01-01 00:00:00; the    *)
(* model keeps it as the days since then and the seconds of the day.       *)
(* gmtime_r and mktime (no time zone is set) are those of avr-libc for the *)
(* years 2000..2099, in which every fourth year is a leap year; of mktime's *)
(* normalisation the model has the carry of tm_hour into the days.          *)
(***************************************************************************)
DS1307_SECOND_REGISTER == 0
DS1307_MINUTE_REGISTER == 1
DS1307_HOUR_REGISTER == 2
DS1307_DOW_REGISTER == 3
DS1307_DATE_REGISTER == 4
DS1307_MONTH_REGISTER == 5
DS1307_YEAR_REGISTER == 6
DS1307_CTRL_REGISTER == 7

\* binary.h:36
FROM_BCD(n) == BitAnd(n, 15) + (BitAnd(n, 240) \div 16) * 10
\* binary.h:42
TO_BCD(n) == BitOr(n % 10, (n \div 10) * 16)

IsLeapYear(tm_year) == tm_year % 4 = 0
DaysOfMonth(tm_mon, tm_year) ==
    IF tm_mon = 1 THEN (IF IsLeapYear(tm_year) THEN 29 ELSE 28)
    ELSE IF tm_mon \in {3, 5, 8, 10} THEN 30 ELSE 31
RECURSIVE DaysBeforeMonth(_, _)
DaysBeforeMonth(tm_mon, tm_year) ==
    IF tm_mon = 0 THEN 0
    ELSE DaysBeforeMonth(tm_mon - 1, tm_year) + DaysOfMonth(tm_mon - 1, tm_year)
\* the days from 2000-01-01 to the first of January of the year
DaysBeforeYear(tm_year) == 365 * (tm_year - 100) + (tm_year - 100 + 3) \div 4

\* time.h  mktime
mktime(tm) ==
    LET s == tm.tm_hour * 3600 + tm.tm_min * 60 + tm.tm_sec IN
      [days |-> DaysBeforeYear(tm.tm_year) + DaysBeforeMonth(tm.tm_mon, tm.tm_year)
                + tm.tm_mday - 1 + s \div 86400,
       secs |-> s % 86400]
\* time.h  gmtime_r
gmtime_r(time) ==
    LET y == CHOOSE y \in 100..199 :
                 DaysBeforeYear(y) <= time.days /\ time.days < DaysBeforeYear(y + 1)
        yday == time.days - DaysBeforeYear(y)
        m == CHOOSE m \in 0..11 :
                 /\ DaysBeforeMonth(m, y) <= yday
                 /\ yday < DaysBeforeMonth(m, y) + DaysOfMonth(m, y)
    IN [tm_sec |-> time.secs % 60, tm_min |-> (time.secs \div 60) % 60,
        tm_hour |-> time.secs \div 3600, tm_mday |-> yday - DaysBeforeMonth(m, y) + 1,
        tm_mon |-> m, tm_year |-> y, tm_wday |-> (time.days + 6) % 7]

\* the calendar times asked for: every value of every field, the other fields being those
\* of 2000-01-01 00:00:00 or of 2099-12-28 23:59:59
FirstTime == Midnight2000
LastTime == [tm_sec |-> 59, tm_min |-> 59, tm_hour |-> 23, tm_mday |-> 28, tm_mon |-> 11,
             tm_year |-> 199, tm_wday |-> 0]
Datetimes ==
    UNION { { [b EXCEPT !.tm_sec = v] : v \in 0..59 } \cup { [b EXCEPT !.tm_min = v] : v \in 0..59 }
            \cup { [b EXCEPT !.tm_hour = v] : v \in 0..23 }
            \cup { [b EXCEPT !.tm_mday = v] : v \in 1..31 }
            \cup { [b EXCEPT !.tm_mon = v] : v \in 0..11 }
            \cup { [b EXCEPT !.tm_year = v] : v \in 100..199 } : b \in {FirstTime, LastTime} }
\* the control register of the device: output off, or the 32.768 kHz square wave
CtrlValues == {0, 19}

\* ds1307.c:119-135  the seven registers of a struct tm, and the control register
RegistersOf(datetime, ctrl) ==
    [k \in 0..7 |->
        IF k = DS1307_SECOND_REGISTER THEN BitAnd(TO_BCD(datetime.tm_sec), 127)
        ELSE IF k = DS1307_MINUTE_REGISTER THEN BitAnd(TO_BCD(datetime.tm_min), 127)
        ELSE IF k = DS1307_HOUR_REGISTER THEN BitAnd(TO_BCD(datetime.tm_hour), 63)
        ELSE IF k = DS1307_DOW_REGISTER THEN BitAnd(TO_BCD(datetime.tm_wday + 1), 63)
        ELSE IF k = DS1307_DATE_REGISTER THEN BitAnd(TO_BCD(datetime.tm_mday), 63)
        ELSE IF k = DS1307_MONTH_REGISTER THEN BitAnd(TO_BCD(datetime.tm_mon + 1), 63)
        ELSE IF k = DS1307_YEAR_REGISTER THEN TO_BCD(datetime.tm_year - 100) % 256
        ELSE ctrl]

\* (variant: the hour register is masked like the date register in both modes)
HourOf_noModes(reg) == FROM_BCD(BitAnd(reg, 63))
\* ds1307.c:79-90  tm_hour
HourOf(reg) ==
    IF CHECKBIT(reg, 6) # 0
    THEN FROM_BCD(BitAnd(reg, 31)) + (IF CHECKBIT(reg, 5) # 0 THEN 12 ELSE 0)
    ELSE FROM_BCD(BitAnd(reg, 63))
\* (variant: the month is not counted from 0)
MonthOf_fromOne(reg) == FROM_BCD(BitAnd(reg, 31))
\* ds1307.c:97  tm_mon
MonthOf(reg) == FROM_BCD(BitAnd(reg, 31)) - 1
\* ds1307.c:76-101  struct tm currentTime; tm_wday is not set, mktime computes it
TmOf(regs) ==
    LET tm == [tm_sec |-> FROM_BCD(BitAnd(regs[DS1307_SECOND_REGISTER], 127)),
               tm_min |-> FROM_BCD(BitAnd(regs[DS1307_MINUTE_REGISTER], 127)),
               tm_hour |-> HourOf(regs[DS1307_HOUR_REGISTER]),
               tm_mday |-> FROM_BCD(BitAnd(regs[DS1307_DATE_REGISTER], 63)),
               tm_mon |-> MonthOf(regs[DS1307_MONTH_REGISTER]),
               tm_year |-> FROM_BCD(BitAnd(regs[DS1307_YEAR_REGISTER], 255)) + 100,
               tm_wday |-> 0]
    IN tm

notDtVars == <<errVars, _uartBuffers, reader, logVars, baudVars, ctrlVars, UDRE0, udrWrites,
               sender, TWCR, TWDR, twiLog, twiData, twiCall, TWBR, TWSR, bitrate, ds,
               registerTable, rtc, moreVars>>

\* ds1307.c:112-138  DS1307_setDatetime up to the register image, for the time_t of a
\* calendar time and a value of the control register
DS1307_setDatetime_registers ==
    /\ dt.stage = "none"
    /\ \E asked \in Datetimes, ctrl \in CtrlValues :
         /\ rtcTime' = mktime(asked)
         /\ registers' = RegistersOf(gmtime_r(mktime(asked)), ctrl)
         /\ dt' = [stage |-> "set", asked |-> asked, hour |-> asked.tm_hour]
    /\ UNCHANGED <<currentTime, returnedTime, notDtVars>>

\* the hour register as the device shows it: hour is the hour of the day, in the 24-hour
\* mode (bit 6 clear) or in the 12-hour mode (bit 6 set, bit 5 set for PM, 1..12 in BCD)
HourRegister(hour, mode12) ==
    IF mode12
    THEN 64 + (IF hour >= 12 THEN 32 ELSE 0)
            + ((((hour + 11) % 12) + 1) \div 10) * 16 + ((((hour + 11) % 12) + 1) % 10)
    ELSE (hour \div 10) * 16 + (hour % 10)

\* DS1307_getAllRegisters of ds1307.c:72 has delivered an image of the running clock
DS1307_image ==
    /\ dt.stage = "none"
    /\ \E hour \in 0..23, mode12 \in BOOLEAN :
         /\ registers' = [registers EXCEPT ![DS1307_HOUR_REGISTER] = HourRegister(hour, mode12)]
         /\ dt' = [dt EXCEPT !.stage = "read", !.hour = hour]
    /\ UNCHANGED <<rtcTime, currentTime, returnedTime, notDtVars>>

\* ds1307.c:76-109  DS1307_getDatetime from the register image on
DS1307_getDatetime_registers ==
    /\ dt.stage \in {"set", "read"}
    /\ currentTime' = TmOf(registers)
    /\ returnedTime' = mktime(TmOf(registers))
    /\ dt' = [dt EXCEPT !.stage = IF dt.stage = "set" THEN "setget" ELSE "readget"]
    /\ UNCHANGED <<rtcTime, registers, notDtVars>>

NextDatetime ==
    \/ DS1307_setDatetime_registers
    \/ DS1307_image
    \/ DS1307_getDatetime_registers

SpecDatetime == Init /\ [][NextDatetime]_vars

(***************************************************************************)
(* ds1307.c:25  DS1307_getRegister, ds1307.c:50  DS1307_setRegister,       *)
(* ds1307.c:57  DS1307_setAllRegisters, ds1307.c:112  DS1307_setDatetime.  *)
(*                                                                         *)
(* rtc is the position of the main line: the function it is in, the next   *)
(* statement, the arguments and locals, the length twiLog had when the     *)
(* transaction began, and whether DS1307_setDatetime is the caller.  One   *)
(* step is one call of a driver function.  twiLog lists the bus actions    *)
(* since the call made by the client.  The device answers a read with any  *)
(* of CtrlValues.  A throw leaves the functions; nothing catches it here.  *)
(* The client makes one call, on the bus as error_init and the start-up    *)
(* have left it.                                                           *)
(***************************************************************************)
rtcRest == <<ds, registerTable, rtcTime, currentTime, returnedTime, dt, reader, logVars,
             baudVars, ctrlVars, UDRE0, udrWrites, sender, TWBR, TWSR, bitrate, moreVars>>
RtcMayCall ==
    /\ pc = "run"
    /\ twiCall = NoCall
    /\ reader.pc = "idle" /\ sender.pc = "idle" /\ ds.pc = "idle" /\ rtc.fn = "none"
RegisterAddresses == {DS1307_SECOND_REGISTER, DS1307_CTRL_REGISTER}
SetTimes == {FirstTime, [LastTime EXCEPT !.tm_mday = 31]}

\* i2c_master_startFrame(_DS1307_I2C_ADDR, direction); then the statement next
RtcStartFrame(direction, next) ==
    /\ i2c_master_startFrame(twiLog, _DS1307_I2C_ADDR, direction,
            /\ twiCall' = DriverCall("startFrame", _DS1307_I2C_ADDR, direction, "returned")
            /\ rtc' = [rtc EXCEPT !.pc = next],
            /\ twiCall' = DriverCall("startFrame", _DS1307_I2C_ADDR, direction, "thrown")
            /\ rtc' = NoRtc)
    /\ UNCHANGED <<twiData, registers, rtcRest>>
\* i2c_master_sendByte(data); then the main line is at after
RtcSendByte(data, after) ==
    /\ i2c_master_sendByte(twiLog, data,
            /\ twiCall' = DriverCall("sendByte", data, 0, "returned")
            /\ rtc' = after,
            /\ twiCall' = DriverCall("sendByte", data, 0, "thrown")
            /\ rtc' = NoRtc)
    /\ UNCHANGED <<twiData, registers, rtcRest>>
\* i2c_master_endFrame(); then the statement next
RtcEndFrame(next) ==
    /\ i2c_master_endFrame(twiLog)
    /\ twiCall' = DriverCall("endFrame", 0, 0, "returned")
    /\ rtc' = [rtc EXCEPT !.pc = next]
    /\ UNCHANGED <<twiData, registers, rtcRest>>
RtcAt(fn, at) == rtc.fn = fn /\ rtc.pc = at
RtcSilent == UNCHANGED <<TWCR, TWDR, twiData, twiCall, errVars, _uartBuffers, rtcRest>>

\* ds1307.c:25  the call by the client
DS1307_getRegister ==
    /\ RtcMayCall
    /\ \E reg \in RegisterAddresses :
         rtc' = [NoRtc EXCEPT !.fn = "getRegister", !.pc = "startWrite", !.reg = reg]
    /\ twiLog' = << >>
    /\ UNCHANGED registers
    /\ RtcSilent
\* ds1307.c:26
DS1307_getRegister_startWrite ==
    RtcAt("getRegister", "startWrite") /\ RtcStartFrame(I2C_WRITE, "sendAddress")
\* ds1307.c:27
DS1307_getRegister_sendAddress ==
    RtcAt("getRegister", "sendAddress") /\ RtcSendByte(rtc.reg, [rtc EXCEPT !.pc = "startRead"])
\* ds1307.c:28
DS1307_getRegister_startRead ==
    RtcAt("getRegister", "startRead") /\ RtcStartFrame(I2C_READ, "readByte")
\* ds1307.c:29  uint8_t registerValue = i2c_master_readByte(I2C_NACK)
DS1307_getRegister_readByte ==
    /\ RtcAt("getRegister", "readByte")
    /\ \E received \in CtrlValues :
         i2c_master_readByte(twiLog, I2C_NACK, received,
            /\ twiCall' = DriverCall("readByte", I2C_NACK, 0, "returned")
            /\ rtc' = [rtc EXCEPT !.pc = "endFrame", !.data = twiData'],
            /\ twiCall' = DriverCall("readByte", I2C_NACK, 0, "thrown")
            /\ rtc' = NoRtc)
    /\ UNCHANGED <<registers, rtcRest>>
\* ds1307.c:30
DS1307_getRegister_endFrame ==
    RtcAt("getRegister", "endFrame") /\ RtcEndFrame("return")
\* ds1307.c:32  return registerValue; in DS1307_setDatetime the value goes into
\* registers[DS1307_CTRL_REGISTER] (ds1307.c:138) and DS1307_setAllRegisters(registers) is
\* called (ds1307.c:141)
DS1307_getRegister_return ==
    /\ RtcAt("getRegister", "return")
    /\ IF rtc.setDatetime
       THEN /\ registers' = [registers EXCEPT ![DS1307_CTRL_REGISTER] = rtc.data]
            /\ rtc' = [NoRtc EXCEPT !.fn = "setAllRegisters", !.pc = "startWrite",
                                    !.registerTable = registers', !.from = Len(twiLog),
                                    !.setDatetime = TRUE]
       ELSE /\ rtc' = NoRtc
            /\ UNCHANGED registers
    /\ UNCHANGED twiLog
    /\ RtcSilent

\* ds1307.c:50  the call by the client
DS1307_setRegister ==
    /\ RtcMayCall
    /\ \E reg \in RegisterAddresses, data \in DataBytes :
         rtc' = [NoRtc EXCEPT !.fn = "setRegister", !.pc = "startWrite", !.reg = reg,
                              !.data = data]
    /\ twiLog' = << >>
    /\ UNCHANGED registers
    /\ RtcSilent
\* ds1307.c:51
DS1307_setRegister_startWrite ==
    RtcAt("setRegister", "startWrite") /\ RtcStartFrame(I2C_WRITE, "sendAddress")
\* ds1307.c:52
DS1307_setRegister_sendAddress ==
    RtcAt("setRegister", "sendAddress") /\ RtcSendByte(rtc.reg, [rtc EXCEPT !.pc = "sendData"])
\* ds1307.c:53
DS1307_setRegister_sendData ==
    RtcAt("setRegister", "sendData") /\ RtcSendByte(rtc.data, [rtc EXCEPT !.pc = "endFrame"])
\* ds1307.c:54
DS1307_setRegister_endFrame ==
    RtcAt("setRegister", "endFrame") /\ RtcEndFrame("return")
\* ds1307.c:55
DS1307_setRegister_return ==
    /\ RtcAt("setRegister", "return")
    /\ rtc' = NoRtc
    /\ UNCHANGED <<twiLog, registers>>
    /\ RtcSilent

\* ds1307.c:57  the call by the client, with the image of 2000-01-01 00:00:00
DS1307_setAllRegisters ==
    /\ RtcMayCall
    /\ rtc' = [NoRtc EXCEPT !.fn = "setAllRegisters", !.pc = "startWrite",
                            !.registerTable = RegistersOf(FirstTime, 0)]
    /\ twiLog' = << >>
    /\ UNCHANGED registers
    /\ RtcSilent
\* ds1307.c:58
DS1307_setAllRegisters_startWrite ==
    RtcAt("setAllRegisters", "startWrite") /\ RtcStartFrame(I2C_WRITE, "sendPointer")
\* ds1307.c:59, and int i = 0 of ds1307.c:62
DS1307_setAllRegisters_sendPointer ==
    /\ RtcAt("setAllRegisters", "sendPointer")
    /\ RtcSendByte(0, [rtc EXCEPT !.pc = "sendRegister", !.i = 0])
\* (variant: the table is sent from its second byte on)
TableByte_fromSecond(table, i) == table[(i + 1) % 8]
\* ds1307.c:63  registerTable[i]
TableByte(table, i) == table[i]
\* ds1307.c:62-64  one pass of the loop, up to the test i < 8
DS1307_setAllRegisters_sendRegister ==
    /\ RtcAt("setAllRegisters", "sendRegister")
    /\ RtcSendByte(TableByte(rtc.registerTable, rtc.i),
                   [rtc EXCEPT !.pc = IF rtc.i + 1 < 8 THEN "sendRegister" ELSE "endFrame",
                               !.i = rtc.i + 1])
\* (variant: the frame is not ended)
DS1307_setAllRegisters_endFrame_skipped ==
    /\ RtcAt("setAllRegisters", "endFrame")
    /\ rtc' = [rtc EXCEPT !.pc = "return"]
    /\ UNCHANGED <<twiLog, registers>>
    /\ RtcSilent
\* ds1307.c:66
DS1307_setAllRegisters_endFrame ==
    RtcAt("setAllRegisters", "endFrame") /\ RtcEndFrame("return")
\* ds1307.c:67, and from there the return of DS1307_setDatetime (ds1307.c:142)
DS1307_setAllRegisters_return ==
    /\ RtcAt("setAllRegisters", "return")
    /\ rtc' = NoRtc
    /\ UNCHANGED <<twiLog, registers>>
    /\ RtcSilent

\* ds1307.c:112-138  the call by the client: gmtime_r, the registers 0 to 6, and the call
\* of DS1307_getRegister(DS1307_CTRL_REGISTER)
DS1307_setDatetime ==
    /\ RtcMayCall
    /\ \E asked \in SetTimes :
         /\ rtcTime' = mktime(asked)
         /\ registers' = RegistersOf(gmtime_r(mktime(asked)), registers[DS1307_CTRL_REGISTER])
    /\ rtc' = [NoRtc EXCEPT !.fn = "getRegister", !.pc = "startWrite",
                            !.reg = DS1307_CTRL_REGISTER, !.setDatetime = TRUE]
    /\ twiLog' = << >>
    /\ UNCHANGED <<TWCR, TWDR, twiData, twiCall, errVars, _uartBuffers>>
    /\ UNCHANGED <<ds, registerTable, currentTime, returnedTime, dt, reader, logVars,
                   baudVars, ctrlVars, UDRE0, udrWrites, sender, TWBR, TWSR, bitrate, moreVars>>

NextRtc ==
    \/ error_init
    \/ error_init_return
    \/ DS1307_getRegister
    \/ DS1307_getRegister_startWrite
    \/ DS1307_getRegister_sendAddress
    \/ DS1307_getRegister_startRead
    \/ DS1307_getRegister_readByte
    \/ DS1307_getRegister_endFrame
    \/ DS1307_getRegister_return
    \/ DS1307_setRegister
    \/ DS1307_setRegister_startWrite
    \/ DS1307_setRegister_sendAddress
    \/ DS1307_setRegister_sendData
    \/ DS1307_setRegister_endFrame
    \/ DS1307_setRegister_return
    \/ DS1307_setAllRegisters
    \/ DS1307_setAllRegisters_startWrite
    \/ DS1307_setAllRegisters_sendPointer
    \/ DS1307_setAllRegisters_sendRegister
    \/ DS1307_setAllRegisters_endFrame
    \/ DS1307_setAllRegisters_return
    \/ DS1307_setDatetime
    \/ RtcMayCall /\ DS1307_getAllRegisters
    \/ DS1307_startWrite
    \/ DS1307_sendPointer
    \/ DS1307_startRead
    \/ DS1307_readRegister
    \/ DS1307_endFrame
    \/ DS1307_return

SpecRtc == Init /\ [][NextRtc]_vars

(***************************************************************************)
(* uart.c:46-78  the storage of the four receive FIFOs, uart.c:168-186     *)
(* the four receive interrupts.                                            *)
(*                                                                         *)
(* Addresses count from the first byte of _rawUARTBuffers, which has three *)
(* rows of UART_BUFFER_SIZE bytes; row r begins at r * UART_BUFFER_SIZE.   *)
(* _uartBuffers[i].ptr is _rawUARTBuffers[i] for i = 0..3, so the ptr of   *)
(* interface 3 is the address behind the last row.  What the linker has    *)
(* placed there belongs to other objects of the program; the program       *)
(* stores to them as it runs.                                              *)
(***************************************************************************)
Interfaces == 0..3
ArrayAddresses == 0..(3 * UART_BUFFER_SIZE - 1)
\* a byte the program stores to an object of its own
OtherByte == 255

notRawVars == <<reader, logVars, baudVars, ctrlVars, UDRE0, udrWrites, sender, twiVars, dtVars, rtc,
                waitVars, lineVars>>

\* the byte at an address
Load(a) == IF a \in ArrayAddresses THEN _rawUARTBuffers[a] ELSE behind[a]
\* buffer.c:16  buffer->ptr[buffer->size] = data
Store(a, data) ==
    IF a \in ArrayAddresses
    THEN _rawUARTBuffers' = [_rawUARTBuffers EXCEPT ![a] = data] /\ UNCHANGED behind
    ELSE behind' = [behind EXCEPT ![a] = data] /\ UNCHANGED _rawUARTBuffers

\* (variant: every interface stores into the FIFO of interface 0)
BufferOf_first(uartInterface) == 0
\* uart.c:170/175/180/185  &_uartBuffers[n]
BufferOf(uartInterface) == uartInterface

\* uart.c:168-186  ISR(USARTn_RX_vect): uint8_t rxData = UDRn; buffer_put(&_uartBuffers[n], rxData)
USARTn_RX_vect(n, rxData) ==
    LET buffer == _uartBuffers_all[BufferOf(n)] IN
    /\ pc \in {"run", "halted"}
    /\ SREG_I
    /\ IF buffer_full(buffer)
       THEN /\ _error_h_throwWithMessage(ERR_BUFFER_OVERFLOW, "ERR_BUFFER_OVERFLOW",
                   "buffer_put: Buffer too long.",
                   [Thrown(ERR_BUFFER_OVERFLOW, "ERR_BUFFER_OVERFLOW",
                           "buffer_put: Buffer too long.") EXCEPT !.isr = TRUE])
            /\ UNCHANGED <<_rawUARTBuffers, behind, _uartBuffers_all>>
       ELSE /\ Store(buffer.ptr + buffer.size, rxData)
            /\ _uartBuffers_all' = [_uartBuffers_all EXCEPT ![BufferOf(n)].size = buffer.size + 1]
            /\ UNCHANGED errVars
    /\ UNCHANGED <<_uartBuffers, notRawVars>>

\* uart.c:168
USART0_RX_vect_all == rxIf' = 0 /\ USARTn_RX_vect(0, RxByte)
\* uart.c:173
USART1_RX_vect == rxIf' = 1 /\ USARTn_RX_vect(1, RxByte)
\* uart.c:178
USART2_RX_vect == rxIf' = 2 /\ USARTn_RX_vect(2, RxByte)
\* uart.c:183
USART3_RX_vect == rxIf' = 3 /\ USARTn_RX_vect(3, RxByte)

\* the program stores to the object that lies behind _rawUARTBuffers
OtherStore ==
    /\ pc = "run"
    /\ \E a \in DOMAIN behind : behind' = [behind EXCEPT ![a] = OtherByte]
    /\ rxIf' = NoInterface
    /\ UNCHANGED <<_rawUARTBuffers, _uartBuffers_all, errVars, _uartBuffers, notRawVars>>

NextRaw ==
    \/ error_init
    \/ error_init_return
    \/ ClientInit
    \/ USART0_RX_vect_all
    \/ USART1_RX_vect
    \/ USART2_RX_vect
    \/ USART3_RX_vect
    \/ OtherStore

SpecRaw == Init /\ [][NextRaw]_vars

(***************************************************************************)
(* i2c_master.c:16-28  the wait for TWINT, and the four functions of the   *)
(* driver statement by statement.                                          *)
(*                                                                         *)
(* "TWINT" \in TWCR is the interrupt flag as a read of TWCR shows it.  The *)
(* flag is cleared by writing a one to it: every read-modify-write of TWCR *)
(* (SETBIT, CLEARBIT, WRITEBIT) writes back the flag it has read and so    *)
(* leaves it clear.  The hardware sets the flag when the operation that    *)
(* was started is over, and then shows a status and the collision flag; it *)
(* may take any time, or never do it; it clears TWSTO when the stop        *)
(* condition is on the bus.  A pass of the loop of                         *)
(* i2c_master.c:16 with the flag clear changes nothing.                    *)
(***************************************************************************)
notWaitVars == <<reader, logVars, baudVars, ctrlVars, UDRE0, udrWrites, sender, twiLog, twiData,
                 TWBR, TWSR, bitrate, ds, registerTable, dtVars, rtc, rawVars, lineVars>>
Awaiting == {"await", "awaitStart", "awaitAddress"}
\* a write of value to TWCR
TWCR_write(value) == value \ {"TWINT"}
DriverMayBeCalled == pc = "run" /\ tw.pc = "idle"
DriverThrows(fn, msg) ==
    /\ I2CThrow(msg)
    /\ twiCall' = DriverCall(fn, tw.data, tw.direction, "thrown")
    /\ tw' = NotInDriver
DriverReturns(fn) ==
    /\ twiCall' = DriverCall(fn, tw.data, tw.direction, "returned")
    /\ tw' = NotInDriver
    /\ UNCHANGED <<errVars, _uartBuffers>>

\* the hardware ends the operation that was started
TWI_hardware ==
    /\ tw.pc \in Awaiting
    /\ "TWINT" \notin TWCR
    /\ \E status \in StatusCodes, twwc \in BOOLEAN :
         /\ twStatus' = status
         /\ TWCR' = (TWCR \ {"TWWC"}) \cup {"TWINT"} \cup (IF twwc THEN {"TWWC"} ELSE {})
    /\ UNCHANGED <<tw, TWDR, twiCall, errVars, _uartBuffers, notWaitVars>>

\* the hardware has put the stop condition on the bus: it clears TWSTO
TWI_stopped ==
    /\ "TWSTO" \in TWCR
    /\ TWCR' = TWCR \ {"TWSTO"}
    /\ UNCHANGED <<tw, twStatus, TWDR, twiCall, errVars, _uartBuffers, notWaitVars>>

\* (variant: the wait gives up)
AwaitOver_timeout(twcr) == TRUE
\* i2c_master.c:16  the loop while(!CHECKBIT(TWCR, TWINT)) is left
AwaitOver(twcr) == "TWINT" \in twcr

\* i2c_master.c:98-101  SETBIT(TWCR, TWSTA); _TWINT_RESET
i2c_master_startFrame_call ==
    /\ DriverMayBeCalled
    /\ \E direction \in {I2C_WRITE, I2C_READ} :
         tw' = [NotInDriver EXCEPT !.fn = "startFrame", !.pc = "awaitStart",
                                   !.slaveAddress = _DS1307_I2C_ADDR, !.direction = direction]
    /\ TWCR' = TWCR_write(TWCR_write(SETBIT(TWCR, "TWSTA")) \cup {"TWINT"})
    /\ UNCHANGED <<twStatus, TWDR, twiCall, errVars, _uartBuffers, notWaitVars>>
\* i2c_master.c:101-115  after the wait: the status, the address byte, CLEARBIT(TWCR, TWSTA),
\* _TWINT_RESET
i2c_master_startFrame_started ==
    /\ tw.pc = "awaitStart"
    /\ AwaitOver(TWCR)
    /\ IF i2c_master_checkStatus_throws(twStatus, "TWWC" \in TWCR)
       THEN DriverThrows("startFrame", i2c_master_checkStatus_message(twStatus))
            /\ UNCHANGED <<TWCR, TWDR>>
       ELSE IF StartFailed(twStatus)
       THEN DriverThrows("startFrame", "i2c_master_startFrame: Failed to generate start condition.")
            /\ UNCHANGED <<TWCR, TWDR>>
       ELSE /\ TWDR' = addressRWByte(tw.slaveAddress, tw.direction)
            /\ TWCR' = TWCR_write(TWCR_write(CLEARBIT(TWCR, "TWSTA")) \cup {"TWINT"})
            /\ tw' = [tw EXCEPT !.pc = "awaitAddress"]
            /\ UNCHANGED <<twiCall, errVars, _uartBuffers>>
    /\ UNCHANGED <<twStatus, notWaitVars>>
\* i2c_master.c:115-122  after the second wait
i2c_master_startFrame_addressed ==
    /\ tw.pc = "awaitAddress"
    /\ AwaitOver(TWCR)
    /\ IF i2c_master_checkStatus_throws(twStatus, "TWWC" \in TWCR)
       THEN DriverThrows("startFrame", i2c_master_checkStatus_message(twStatus))
       ELSE IF AddressFailed(twStatus)
       THEN DriverThrows("startFrame", "i2c_master_startFrame: Failed to send SLA+R/W.")
       ELSE DriverReturns("startFrame")
    /\ UNCHANGED <<TWCR, TWDR, twStatus, notWaitVars>>

\* i2c_master.c:84-85  TWDR = data; _TWINT_RESET
i2c_master_sendByte_call ==
    /\ DriverMayBeCalled
    /\ \E data \in DataBytes :
         /\ tw' = [NotInDriver EXCEPT !.fn = "sendByte", !.pc = "await", !.data = data]
         /\ TWDR' = data
    /\ TWCR' = TWCR_write(TWCR \cup {"TWINT"})
    /\ UNCHANGED <<twStatus, twiCall, errVars, _uartBuffers, notWaitVars>>
\* i2c_master.c:85-95  after the wait
i2c_master_sendByte_sent ==
    /\ tw.fn = "sendByte" /\ tw.pc = "await"
    /\ AwaitOver(TWCR)
    /\ IF i2c_master_checkStatus_throws(twStatus, "TWWC" \in TWCR)
       THEN DriverThrows("sendByte", i2c_master_checkStatus_message(twStatus))
       ELSE IF SendFailed(twStatus)
       THEN IF twStatus = I2C_MASTER_DATA_SENT_NACK
            THEN DriverThrows("sendByte", "i2c_master_sendByte: Data sent, NACK received.")
            ELSE DriverThrows("sendByte", "i2c_master_sendByte: Data sent, status invalid.")
       ELSE DriverReturns("sendByte")
    /\ UNCHANGED <<TWCR, TWDR, twStatus, notWaitVars>>

\* i2c_master.c:126-130  WRITEBIT(TWCR, TWEA, ackType); _TWINT_RESET
i2c_master_readByte_call ==
    /\ DriverMayBeCalled
    /\ \E ackType \in {I2C_NACK, I2C_ACK} :
         /\ tw' = [NotInDriver EXCEPT !.fn = "readByte", !.pc = "await", !.data = ackType]
         /\ TWCR' = TWCR_write(TWCR_write(WRITEBIT(TWCR, "TWEA", ackType)) \cup {"TWINT"})
    /\ UNCHANGED <<twStatus, TWDR, twiCall, errVars, _uartBuffers, notWaitVars>>
\* i2c_master.c:130-140  after the wait
i2c_master_readByte_received ==
    /\ tw.fn = "readByte" /\ tw.pc = "await"
    /\ AwaitOver(TWCR)
    /\ IF i2c_master_checkStatus_throws(twStatus, "TWWC" \in TWCR)
       THEN DriverThrows("readByte", i2c_master_checkStatus_message(twStatus))
       ELSE IF ReadFailed(twStatus)
       THEN DriverThrows("readByte", "i2c_master_readByte: Failed to read message from I2C.")
       ELSE DriverReturns("readByte")
    /\ UNCHANGED <<TWCR, TWDR, twStatus, notWaitVars>>

\* i2c_master.c:142-144  SETBIT(TWCR, TWSTO), and the return
i2c_master_endFrame_call ==
    /\ DriverMayBeCalled
    /\ TWCR' = TWCR_write(SETBIT(TWCR, "TWSTO"))
    /\ twiCall' = DriverCall("endFrame", 0, 0, "returned")
    /\ UNCHANGED <<tw, twStatus, TWDR, errVars, _uartBuffers, notWaitVars>>

NextWait ==
    \/ error_init
    \/ error_init_return
    \/ TWI_hardware
    \/ TWI_stopped
    \/ i2c_master_startFrame_call
    \/ i2c_master_startFrame_started
    \/ i2c_master_startFrame_addressed
    \/ i2c_master_sendByte_call
    \/ i2c_master_sendByte_sent
    \/ i2c_master_readByte_call
    \/ i2c_master_readByte_received
    \/ i2c_master_endFrame_call

SpecWait == Init /\ [][NextWait]_vars

(***************************************************************************)
(* usb_terminal.c:82  usb_terminal_readln(target, maxLength).              *)
(*                                                                         *)
(* One step is one pass of the loop.  uart_readByte delivers the next      *)
(* character that was received, or the call is left by the throw of the    *)
(* receive interrupt on a full FIFO (uart.c:170, buffer.c:11).  The echo   *)
(* of uart_sendByte is the byte appended to udrWrites.  target is the      *)
(* memory at the caller's pointer, from the byte before it to the byte     *)
(* with the index MaxLength; a buffer of maxLength bytes is its part       *)
(* 0 .. maxLength - 1.  i is an int and maxLength a size_t of 16 bits: the *)
(* comparison of usb_terminal.c:93 is made in unsigned int.                *)
(***************************************************************************)
DEL == 127
CR == 13
LF == 10
TypedChars == {65, 66, DEL, CR, LF}
notLineVars == <<reader, logVars, baudVars, ctrlVars, UDRE0, sender, twiVars, dtVars, rtc, rawVars,
                 waitVars>>

\* usb_terminal.c:82-84  the call
usb_terminal_readln ==
    /\ pc = "run"
    /\ rl.pc = "idle"
    /\ \E maxLength \in 1..MaxLength :
         rl' = [NotInReadln EXCEPT !.pc = "loop", !.maxLength = maxLength]
    /\ UNCHANGED <<target, udrWrites, errVars, _uartBuffers, notLineVars>>

\* usb_terminal.c:85  the test of the loop
LineEnded(currentChar) == currentChar = LF \/ currentChar = CR
\* (variant: the last byte of the buffer is used for a character as well)
BufferExceeded_late(i, maxLength) == ToUnsignedInt(i) > ToUnsignedInt(maxLength)
\* usb_terminal.c:93  i >= maxLength - 1
BufferExceeded(i, maxLength) == ToUnsignedInt(i) >= ToUnsignedInt(maxLength - 1)

\* usb_terminal.c:85-101  one pass of the loop, for the character c
usb_terminal_readln_char ==
    /\ pc = "run"
    /\ rl.pc = "loop"
    /\ ~LineEnded(rl.currentChar)
    /\ Len(rl.received) < MaxTyped
    /\ \E c \in TypedChars :
         LET got == [rl EXCEPT !.currentChar = c, !.received = Append(rl.received, c)] IN
         IF c = DEL
         THEN /\ rl' = [got EXCEPT !.i = IF rl.i <= 0 THEN rl.i ELSE rl.i - 1]
              /\ udrWrites' = IF rl.i <= 0 THEN udrWrites ELSE Append(udrWrites, c)
              /\ UNCHANGED <<target, errVars, _uartBuffers>>
         ELSE IF BufferExceeded(rl.i, rl.maxLength)
         THEN /\ _error_h_throwWithMessage(ERR_BUFFER_OVERFLOW, "ERR_BUFFER_OVERFLOW",
                     "usb_terminal_readln: Maximum buffer length exceeded.",
                     Thrown(ERR_BUFFER_OVERFLOW, "ERR_BUFFER_OVERFLOW",
                            "usb_terminal_readln: Maximum buffer length exceeded."))
              /\ rl' = [got EXCEPT !.pc = "thrown"]
              /\ UNCHANGED <<target, udrWrites>>
         ELSE /\ target' = [target EXCEPT ![rl.i] = c]
              /\ rl' = [got EXCEPT !.i = rl.i + 1]
              /\ udrWrites' = Append(udrWrites, c)
              /\ UNCHANGED <<errVars, _uartBuffers>>
    /\ UNCHANGED notLineVars

\* usb_terminal.c:87  the receive interrupt throws while uart_readByte waits
usb_terminal_readln_interrupted ==
    /\ pc = "run"
    /\ rl.pc = "loop"
    /\ ~LineEnded(rl.currentChar)
    /\ _error_h_throwWithMessage(ERR_BUFFER_OVERFLOW, "ERR_BUFFER_OVERFLOW",
            "buffer_put: Buffer too long.",
            [Thrown(ERR_BUFFER_OVERFLOW, "ERR_BUFFER_OVERFLOW",
                    "buffer_put: Buffer too long.") EXCEPT !.isr = TRUE])
    /\ rl' = [rl EXCEPT !.pc = "thrown"]
    /\ UNCHANGED <<target, udrWrites, notLineVars>>

\* usb_terminal.c:102-107  behind the loop
usb_terminal_readln_end ==
    /\ pc = "run"
    /\ rl.pc = "loop"
    /\ LineEnded(rl.currentChar)
    /\ target' = [target EXCEPT ![rl.i - 1] = 0]
    /\ udrWrites' = udrWrites \o <<CR, LF>>
    /\ rl' = [rl EXCEPT !.pc = "returned"]
    /\ UNCHANGED <<errVars, _uartBuffers, notLineVars>>

NextReadln ==
    \/ error_init
    \/ error_init_return
    \/ usb_terminal_readln
    \/ usb_terminal_readln_char
    \/ usb_terminal_readln_interrupted
    \/ usb_terminal_readln_end

SpecReadln == Init /\ [][NextReadln]_vars

(***************************************************************************)
(* Properties of the FIFO.                                                 *)
(***************************************************************************)
IsPrefix(s, t) == Len(s) <= Len(t) /\ SubSeq(t, 1, Len(s)) = s

\* C11: with the calls of buffer_put, buffer_get and buffer_clear made one after the other,
\* between two calls the bytes returned so far followed by ptr[0 .. size-1] are the bytes
\* put so far (and not cleared), in the order they were put; a get that is about to return
\* returns the oldest byte that was not yet returned.
C11_SequentialFifoOrder ==
    /\ reader.pc = "idle" => returned \o Unread(_uartBuffers[0]) = written
    /\ reader.pc = "return" =>
          Append(returned, reader.data) \o Unread(_uartBuffers[0]) = written

\* two bytes came out while a third one is still stored
C11_Witness ==
    /\ reader.pc = "idle"
    /\ Len(returned) >= 2
    /\ _uartBuffers[0].size >= 1
    /\ ~SREG_I

\* C13: the size of the FIFO is between 0 and maxSize in every state.
C13_SizeWithinCapacity ==
    /\ _uartBuffers[0].maxSize = UART_BUFFER_SIZE
    /\ _uartBuffers[0].size >= 0
    /\ _uartBuffers[0].size <= _uartBuffers[0].maxSize

\* the receive interrupt has refilled the FIFO behind the store of size-- of a reader,
\* after a push had failed
C13_Witness ==
    /\ reader.pc = "head"
    /\ _uartBuffers[0].size = reader.tmp
    /\ _uartBuffers[0].size = _uartBuffers[0].maxSize
    /\ lastThrow.msg = "buffer_put: Buffer too long."

\* C14: a buffer_put on a full buffer throws ERR_BUFFER_OVERFLOW (control goes to the
\* handler the throw selects) and changes neither size nor the stored bytes.
C14_PutOnFullThrows ==
    [][ (rxCount' # rxCount /\ _uartBuffers[0].size = _uartBuffers[0].maxSize)
        => /\ _uartBuffers' = _uartBuffers
           /\ written' = written
           /\ lastThrow'.code = ERR_BUFFER_OVERFLOW
           /\ lastThrow'.msg = "buffer_put: Buffer too long."
           /\ lastThrow'.target = _error_h_currentJmpBuf
           /\ lastThrow'.handler # -1
           /\ _error_h_setjmpReturnValue' = ERR_BUFFER_OVERFLOW \/ pc' = "halted" ]_vars

\* the main line's put failed on a full buffer
C14_Witness ==
    /\ lastThrow.msg = "buffer_put: Buffer too long."
    /\ ~lastThrow.isr
    /\ _uartBuffers[0].size = _uartBuffers[0].maxSize
    /\ Unread(_uartBuffers[0]) = written

\* C15: a buffer_get on an empty buffer throws ERR_BUFFER_OVERFLOW, returns no byte and
\* leaves the size 0; a get that follows a put on an empty buffer returns the byte put.
C15_GetOnEmptyThrows ==
    /\ [][ (reader.pc = "check" /\ _uartBuffers[0].size = 0)
           => /\ _uartBuffers' = _uartBuffers
              /\ returned' = returned
              /\ reader' = Idle
              /\ lastThrow'.code = ERR_BUFFER_OVERFLOW
              /\ lastThrow'.msg = "buffer_get: Buffer empty."
              /\ lastThrow'.target = _error_h_currentJmpBuf
              /\ lastThrow'.handler # -1 ]_vars
    /\ [](reader.pc = "return" /\ Len(written) = Len(returned) + 1
              => reader.data = written[Len(written)])

\* a get failed on the empty buffer; then a byte was put and a get is about to return it
C15_Witness ==
    /\ lastThrow.msg = "buffer_get: Buffer empty."
    /\ reader.pc = "return"
    /\ Len(written) = Len(returned) + 1
    /\ _uartBuffers[0].size = 0

(***************************************************************************)
(* Properties of the FIFO under the receive interrupt.                     *)
(***************************************************************************)
\* C12: with the receive interrupt preempting the reader anywhere, the bytes returned are
\* the bytes received, in order: what was returned is a prefix of what was stored, a read
\* that is about to return returns the oldest byte not yet returned, and between two
\* reads the FIFO holds exactly the bytes not yet returned.
C12_ReadsAreTheBytesReceived ==
    /\ IsPrefix(returned, written)
    /\ reader.pc = "return" => IsPrefix(Append(returned, reader.data), written)
    /\ reader.pc \in {"idle", "wait"} => returned \o Unread(_uartBuffers[0]) = written

\* C16: no throw is performed by the receive interrupt handler.
C16_InterruptNeverThrows == ~lastThrow.isr

\* C17: a byte that arrives while the FIFO holds maxSize unread bytes makes the interrupt's
\* buffer_put throw ERR_BUFFER_OVERFLOW, to the fatal handler if no protected scope is
\* active, and leaves size and every stored byte as they were: the unread bytes are still
\* ptr[0 .. size-1], unchanged and in order.
C17_OverflowKeepsBufferedBytes ==
    [][ (rxCount' # rxCount /\ _uartBuffers[0].size = _uartBuffers[0].maxSize)
        => /\ _uartBuffers' = _uartBuffers
           /\ written' = written
           /\ returned' = returned
           /\ lastThrow'.isr
           /\ lastThrow'.code = ERR_BUFFER_OVERFLOW
           /\ lastThrow'.msg = "buffer_put: Buffer too long."
           /\ BodyIdx(cstack) = {} => (pc' = "halted" /\ lastThrow'.handler = 0)
           /\ BodyIdx(cstack) # {} => (pc' = "run" /\ lastThrow'.handler = InnermostActive(cstack)) ]_vars

\* the overflow was caught and the FIFO still holds the first maxSize bytes received
C17_Witness ==
    /\ lastThrow.isr
    /\ lastThrow.handler > 0
    /\ pc = "run"
    /\ returned = << >>
    /\ Unread(_uartBuffers[0]) = [j \in 1..UART_BUFFER_SIZE |-> j]
    /\ rxCount = UART_BUFFER_SIZE + 1

\* C18: uart_readByte leaves its wait loop only with a non-empty FIFO, never runs into the
\* empty-buffer throw of buffer_get, returns the byte that was at the head when it was
\* called (the oldest byte not yet returned) and removes exactly that byte; the test of
\* uart_available changes nothing of the FIFO.
C18_ReadByteReturnsHead ==
    /\ [][ (reader.pc = "wait" /\ rxCount' = rxCount)
           => /\ reader'.pc = "check" => ~buffer_empty(_uartBuffers[0])
              /\ reader'.pc \in {"wait", "check"} => _uartBuffers' = _uartBuffers ]_vars
    /\ [][ (reader.via = "uart_readByte" /\ reader.pc = "check" /\ rxCount' = rxCount)
           => (lastThrow' = lastThrow /\ reader'.pc = "load") ]_vars
    /\ [][ (reader.via = "uart_readByte" /\ reader.pc = "return" /\ reader'.pc = "idle"
                /\ pc' = "run" /\ rxCount' = rxCount)
           => /\ returned' \o Unread(_uartBuffers'[0]) = written
              /\ IsPrefix(returned', written) ]_vars

\* C19: uart_readByte has no timeout: once a byte is in the FIFO the call eventually
\* returns, and as long as none arrives the call stays in its wait loop, without
\* returning and without throwing.
C19_ReadByteReturnsOnceAByteArrived ==
    /\ (reader.pc = "wait" /\ uart_available(0)) ~> (reader.pc = "return")
    /\ [][ (reader.pc = "wait" /\ ~uart_available(0) /\ rxCount' = rxCount)
           => (reader' = reader /\ lastThrow' = lastThrow /\ returned' = returned) ]_vars

(***************************************************************************)
(* Properties of the baud rate selection.                                  *)
(***************************************************************************)
\* | F_CPU / (k * n) - baud | * k * n, the error of the actual rate of divisor n in mode k
Magnitude(x) == IF x < 0 THEN -x ELSE x
RateError(k, n, baud) == Magnitude(F_CPU - k * n * baud)

\* C20: after uart_setBaudrate has accepted a rate whose double-speed divisor is in range,
\* the mode it selected is the one whose actual rate, computed from the rounded divisor,
\* is at least as close to the requested rate as the other mode's, and the register holds
\* that mode's rounded divisor.
C20_CloserModeSelected ==
    (pc = "run" /\ baudrate # 0 /\ F_CPU \div (8 * baudrate) < 2048) =>
        LET kc == IF U2X0 THEN 8 ELSE 16
            ko == IF U2X0 THEN 16 ELSE 8
            nc == RoundedUbrr(kc, baudrate) + 1
            no == RoundedUbrr(ko, baudrate) + 1
        IN  /\ UBRR0.H * 256 + UBRR0.L = nc - 1
            /\ RateError(kc, nc, baudrate) * (ko * no) <= RateError(ko, no, baudrate) * (kc * nc)

\* a step that throws: it ends in the fatal handler or it enters the catch block
ThrowStep ==
    \/ pc = "run" /\ pc' = "halted"
    \/ WhereIn(cstack) = "body" /\ WhereIn(cstack') = "handler"
\* the normal-mode divisor F_CPU / (16 * baud) - 1 is above 2047
DivisorOutOfRange(baud) == baud <= (F_CPU - 1) \div (16 * 2048)

DoubleSpeedDivisorFits(baud) == RoundedUbrr(8, baud) <= 2047
\* the actual rates of the two modes, from their rounded divisors, are equally far from baud
EquallyClose(baud) ==
    LET n2 == RoundedUbrr(8, baud) + 1
        n1 == RoundedUbrr(16, baud) + 1
    IN  RateError(8, n2, baud) * (16 * n1) = RateError(16, n1, baud) * (8 * n2)

\* C22 (as stated): double speed is never selected when its divisor does not fit, and
\* when the two modes are equally close double speed is selected, provided its divisor
\* fits.
C22_DoubleSpeedPreferredOnTies ==
    (pc = "run" /\ baudrate # 0) =>
        /\ U2X0 => DoubleSpeedDivisorFits(baudrate)
        /\ (EquallyClose(baudrate) /\ DoubleSpeedDivisorFits(baudrate)) => U2X0
\* C22 (amended): double speed is never selected when its divisor does not fit, and when
\* the two modes are equally close normal speed is selected.
C22_NormalSpeedOnTies ==
    (pc = "run" /\ baudrate # 0) =>
        /\ U2X0 => DoubleSpeedDivisorFits(baudrate)
        /\ EquallyClose(baudrate) => ~U2X0
\* 9600 baud: both modes give 9615.38 baud, the divisor 103 of normal speed is written
C22_Witness ==
    /\ pc = "run"
    /\ baudrate = 9600
    /\ EquallyClose(baudrate) /\ DoubleSpeedDivisorFits(baudrate)
    /\ ~U2X0
    /\ UBRR0 = [H |-> 0, L |-> 103]

(***************************************************************************)
(* Properties of the transmission.                                         *)
(***************************************************************************)
\* the characters of s before its first null byte
BeforeNull(s) == SubSeq(s, 1, Min({ j \in 1..Len(s) : s[j] = 0 }) - 1)

\* C23: uart_sendString writes to the data register the characters before the first null
\* byte, in their order and without the null byte: during the call the values written are
\* the first i of them, at the return they are all of them; and every write is done with
\* the data-register-empty flag set.
C23_SendsCharactersBeforeNull ==
    [][ /\ sender'.pc # "idle" =>
             /\ sender'.i <= Len(BeforeNull(sender'.s))
             /\ udrWrites' = SubSeq(BeforeNull(sender'.s), 1, sender'.i)
        /\ sender'.pc = "return" => udrWrites' = BeforeNull(sender'.s)
        /\ udrWrites' # udrWrites /\ udrWrites' # << >> => UDRE0 ]_vars
\* the call with "H", a null byte, "i" and a null byte returns after writing "H"
C23_Witness ==
    /\ sender.pc = "return"
    /\ sender.s = <<72, 0, 105, 0>>
    /\ udrWrites = <<72>>

(***************************************************************************)
(* Properties of the I2C driver.                                           *)
(***************************************************************************)
\* the last call was left by a throw of ERR_I2C_TRANSMISSION that nothing caught
ThrewTransmissionError ==
    /\ twiCall.outcome = "thrown"
    /\ pc = "halted"
    /\ lastThrow.code = ERR_I2C_TRANSMISSION
    /\ lastThrow.name = "ERR_I2C_TRANSMISSION"
StartStatuses ==
    {I2C_MASTER_START_CONDITION_TRANSMITTED, I2C_MASTER_REAPEATED_START_CONDITION_TRANSMITTED}

\* C24: i2c_master_startFrame first emits a start condition; if the status then is not
\* "start transmitted" or "repeated start transmitted" it throws ERR_I2C_TRANSMISSION and
\* nothing more is put on the bus; the address byte, which is the 7-bit address shifted
\* left by one with the direction as bit 0, is transmitted only after one of the two
\* statuses, and it is transmitted after "repeated start" as after "start" when the
\* hardware flags no collision.
C24_AddressOnlyAfterStart ==
    twiCall.fn = "startFrame" =>
        /\ twiLog # << >> /\ twiLog[1].op = "START"
        /\ twiLog[1].status \notin StartStatuses => (Len(twiLog) = 1 /\ ThrewTransmissionError)
        /\ Len(twiLog) > 1 =>
             /\ Len(twiLog) = 2
             /\ twiLog[1].status \in StartStatuses
             /\ twiLog[2].op = "TX"
             /\ twiLog[2].data = 2 * twiCall.arg + twiCall.direction
        /\ (twiLog[1].status \in StartStatuses /\ ~twiLog[1].twwc) => Len(twiLog) = 2
\* a repeated start was reported and SLA+R of the address 0b1101000 was acknowledged
C24_Witness ==
    /\ twiCall = DriverCall("startFrame", 104, I2C_READ, "returned")
    /\ twiLog[1].status = I2C_MASTER_REAPEATED_START_CONDITION_TRANSMITTED
    /\ twiLog[2].data = 209
    /\ twiLog[2].status = I2C_MASTER_SLAR_ACK
    /\ pc = "run"

\* C25: i2c_master_startFrame returns only if the status after the address byte is the
\* acknowledge code of the requested direction, SLA+W ACK for a write and SLA+R ACK for a
\* read.
C25_OnlyRequestedDirectionAck ==
    (twiCall.fn = "startFrame" /\ twiCall.outcome = "returned") =>
        twiLog[2].status = IF twiCall.direction = I2C_WRITE THEN I2C_MASTER_SLAW_ACK
                           ELSE I2C_MASTER_SLAR_ACK

\* C26 (as stated): i2c_master_sendByte returns exactly when the status is "data sent,
\* acknowledged", otherwise it throws ERR_I2C_TRANSMISSION, and a call writes the data
\* register once.
C26_ReturnsIffDataSentAck ==
    twiCall.fn = "sendByte" =>
        /\ twiCall.outcome = "returned" <=> twiLog[1].status = I2C_MASTER_DATA_SENT_ACK
        /\ twiCall.outcome # "returned" => ThrewTransmissionError
        /\ Len(twiLog) = 1 /\ twiLog[1].op = "TX" /\ twiLog[1].data = twiCall.arg
\* C26 (amended): i2c_master_sendByte returns exactly when the status is "data sent,
\* acknowledged" and no write collision is flagged, otherwise it throws
\* ERR_I2C_TRANSMISSION, and a call writes the data register once.
C26_ReturnsIffDataSentAckAndNoCollision ==
    twiCall.fn = "sendByte" =>
        /\ twiCall.outcome = "returned" <=>
               (twiLog[1].status = I2C_MASTER_DATA_SENT_ACK /\ ~twiLog[1].twwc)
        /\ twiCall.outcome # "returned" => ThrewTransmissionError
        /\ Len(twiLog) = 1 /\ twiLog[1].op = "TX" /\ twiLog[1].data = twiCall.arg
\* the byte was acknowledged, the collision flag was set, and the call has thrown
C26_Witness ==
    /\ twiCall = DriverCall("sendByte", 165, 0, "thrown")
    /\ twiLog = << BusAction("TX", 165, 0, I2C_MASTER_DATA_SENT_ACK, TRUE) >>
    /\ ThrewTransmissionError
    /\ lastThrow.msg = "i2c_master_checkStatus: Write collision detected."

\* C27: i2c_master_readByte(ackType) returns only if the status is the receive outcome of
\* the requested acknowledge type: "data received, ACK returned" for I2C_ACK and "data
\* received, NACK returned" for I2C_NACK.
C27_OnlyRequestedAckOutcome ==
    (twiCall.fn = "readByte" /\ twiCall.outcome = "returned") =>
        twiLog[1].status = IF twiCall.arg = I2C_ACK THEN I2C_MASTER_DATA_RECEIVED_ACK
                           ELSE I2C_MASTER_DATA_RECEIVED_NACK

\* the statuses the specification expects after the j-th bus action of the last call
ExpectedStatuses(j) ==
    IF twiLog[j].op = "START" THEN StartStatuses
    ELSE IF twiLog[j].op = "RX"
    THEN {IF twiLog[j].ack = I2C_ACK THEN I2C_MASTER_DATA_RECEIVED_ACK
          ELSE I2C_MASTER_DATA_RECEIVED_NACK}
    ELSE IF twiCall.fn = "startFrame"
    THEN {IF twiCall.direction = I2C_WRITE THEN I2C_MASTER_SLAW_ACK ELSE I2C_MASTER_SLAR_ACK}
    ELSE {I2C_MASTER_DATA_SENT_ACK}
\* the statuses the code lets pass after the j-th bus action of the last call
AcceptedStatuses(j) ==
    IF twiLog[j].op = "START" THEN StartStatuses
    ELSE IF twiLog[j].op = "RX"
    THEN {I2C_MASTER_DATA_RECEIVED_ACK, I2C_MASTER_DATA_RECEIVED_NACK}
    ELSE IF twiCall.fn = "startFrame" THEN {I2C_MASTER_SLAW_ACK, I2C_MASTER_SLAR_ACK}
    ELSE {I2C_MASTER_DATA_SENT_ACK}

\* C28: in i2c_master_startFrame, i2c_master_sendByte and i2c_master_readByte, a bus
\* error, a write collision, an arbitration loss or any other unexpected status reported
\* for a bus action ends the call with a throw of ERR_I2C_TRANSMISSION, and that bus
\* action is the last one of the call.
C28_UnexpectedStatusThrowsAtOnce ==
    twiCall.fn \in {"startFrame", "sendByte", "readByte"} =>
        \A j \in 1..Len(twiLog) :
            (twiLog[j].twwc \/ twiLog[j].status \notin ExpectedStatuses(j)) =>
                (j = Len(twiLog) /\ ThrewTransmissionError)
\* the same with the statuses the code lets pass
C28_UnacceptedStatusThrowsAtOnce ==
    twiCall.fn \in {"startFrame", "sendByte", "readByte"} =>
        \A j \in 1..Len(twiLog) :
            (twiLog[j].twwc \/ twiLog[j].status \notin AcceptedStatuses(j)) <=>
                (j = Len(twiLog) /\ ThrewTransmissionError)

(***************************************************************************)
(* Properties of DS1307_getAllRegisters.                                   *)
(***************************************************************************)
\* what a bus action puts on the bus: the byte sent, or the acknowledge bit of a reception
OnBus(e) == <<e.op, IF e.op = "RX" THEN e.ack ELSE e.data>>
\* the sequence of the specification, with the address 0b1101000
ReadAllSequence ==
    << <<"START", 0>>, <<"TX", 208>>, <<"TX", 0>>, <<"START", 0>>, <<"TX", 209>> >>
    \o [k \in 1..7 |-> <<"RX", I2C_ACK>>] \o << <<"RX", I2C_NACK>>, <<"STOP", 0>> >>
\* the statuses the specification documents for the j-th bus action of the sequence
DocumentedStatuses(j) ==
    IF j \in {1, 4} THEN StartStatuses
    ELSE IF j = 2 THEN {I2C_MASTER_SLAW_ACK}
    ELSE IF j = 3 THEN {I2C_MASTER_DATA_SENT_ACK}
    ELSE IF j = 5 THEN {I2C_MASTER_SLAR_ACK}
    ELSE IF j = 13 THEN {I2C_MASTER_DATA_RECEIVED_NACK}
    ELSE {I2C_MASTER_DATA_RECEIVED_ACK}

\* C29: the bus actions of DS1307_getAllRegisters are, in this order, a start condition,
\* the address 0b1101000 with the write bit, the register pointer 0, a start condition,
\* the address with the read bit, eight receptions of which the first seven are
\* acknowledged and the eighth is not, and a stop condition; the function reaches its
\* return with all of them done and the eight bytes stored at the indices 0..7 in the
\* order received, and as long as every status is the documented one it does not throw.
C29_ReadAllSequenceOnBus ==
    /\ ds.pc # "idle" \/ pc = "halted" =>
          /\ Len(twiLog) <= Len(ReadAllSequence)
          /\ \A j \in 1..Len(twiLog) : OnBus(twiLog[j]) = ReadAllSequence[j]
          /\ \A k \in 0..7 : Len(twiLog) >= 6 + k /\ (6 + k < Len(twiLog) \/ pc # "halted")
                                => registerTable[k] = twiLog[6 + k].data
    /\ ds.pc = "return" => Len(twiLog) = Len(ReadAllSequence)
    /\ pc = "halted" =>
          \E j \in 1..Len(twiLog) : twiLog[j].twwc \/ twiLog[j].status \notin DocumentedStatuses(j)
\* every status was the documented one and the function is at its return
C29_Witness ==
    /\ ds.pc = "return"
    /\ pc = "run"
    /\ \A j \in 1..13 : ~twiLog[j].twwc /\ twiLog[j].status \in DocumentedStatuses(j)
    /\ twiLog[1].status = I2C_MASTER_START_CONDITION_TRANSMITTED
    /\ twiLog[4].status = I2C_MASTER_REAPEATED_START_CONDITION_TRANSMITTED
    /\ twiLog[14].op = "STOP"
    /\ registerTable = [k \in 0..7 |-> FirstByte + k]

\* C30: if a NACK outcome is reported for the third byte, which was requested with ACK,
\* ERR_I2C_TRANSMISSION is thrown at that byte and no further byte is read; and any status
\* that is not the documented one for its bus action ends the read with that throw.
C30_DeviationEndsTheRead ==
    ds.pc # "idle" \/ pc = "halted" =>
        /\ (Len(twiLog) >= 8 /\ twiLog[8].status = I2C_MASTER_DATA_RECEIVED_NACK)
              => (Len(twiLog) = 8 /\ ThrewTransmissionError)
        /\ \A j \in 1..Len(twiLog) :
              (twiLog[j].op # "STOP" /\ twiLog[j].status \notin DocumentedStatuses(j))
                  => (j = Len(twiLog) /\ ThrewTransmissionError)

(***************************************************************************)
(* Properties of the I2C bit rate selection.                               *)
(* The rate of the bus is F_CPU / (16 + 2 * TWBR * 4^TWPS).                *)
(***************************************************************************)
\* the divisor (F_CPU / rate - 16) / (2 * prescaler) is at most 255
DivisorFits(prescaler, rate) == F_CPU - 16 * rate <= 255 * 2 * prescaler * rate
\* the divisor for a prescaler, without its fraction
DivisorFor(prescaler, rate) == (F_CPU - 16 * rate) \div (2 * prescaler * rate)
FittingPrescalers(rate) == { p \in {1, 4, 16, 64} : DivisorFits(p, rate) }
\* a step of i2c_master_setBitrate, alone or from DS1307_init
SetBitrateStep == bitrate' # bitrate \/ TWBR' # TWBR \/ TWSR' # TWSR

\* C31: after i2c_master_setBitrate has returned, the prescaler selected in TWSR is the
\* smallest of 1, 4, 16, 64 for which the divisor of the requested rate is at most 255,
\* and TWBR holds that divisor; for 10000 Hz the divisor written is in 0..255.
C31_SmallestFittingPrescaler ==
    (pc = "run" /\ bitrate # 0) =>
        /\ FittingPrescalers(bitrate) # {}
        /\ 4 ^ TWSR = Min(FittingPrescalers(bitrate))
        /\ TWBR = DivisorFor(4 ^ TWSR, bitrate)
        /\ TWBR \in 0..255

\* C32: a call of i2c_master_setBitrate with a rate for which the divisor fits with none
\* of the prescalers 1, 4, 16, 64 throws ERR_BITRATE_TOO_LOW and writes neither TWBR nor
\* the prescaler bits.
C32_TooLowBitrateRejected ==
    [][ (SetBitrateStep /\ FittingPrescalers(bitrate') = {})
        => /\ ThrowStep
           /\ lastThrow'.code = ERR_BITRATE_TOO_LOW
           /\ TWBR' = TWBR /\ TWSR' = TWSR ]_vars

\* C37: after i2c_master_setBitrate has returned, TWBR is in 0..255 and is the divisor of
\* the requested rate for the prescaler that the bits written to TWSR select, that is
\* (F_CPU / bitrate - 16) / (2 * prescaler) without its fraction.
C37_PrescalerBitsMatchDivisor ==
    (pc = "run" /\ bitrate # 0) =>
        /\ TWBR \in 0..255
        /\ TWBR = DivisorFor(4 ^ TWSR, bitrate)

(***************************************************************************)
(* Properties of the conversions of the DS1307 driver.                     *)
(***************************************************************************)
\* C33: for every calendar time of the years 2000..2099, the register image that
\* DS1307_setDatetime builds has the clock-halt bit (bit 7 of register 0) clear and the
\* 24-hour mode selected (bit 6 of register 2 clear), and decoding it as
\* DS1307_getDatetime does gives the second, minute, hour, day of the month, month and
\* year asked for.
C33_DatetimeRoundTrip ==
    /\ dt.stage = "set" =>
          /\ registers[0] < 128
          /\ (registers[2] \div 64) % 2 = 0
    /\ dt.stage = "setget" =>
          /\ currentTime.tm_sec = dt.asked.tm_sec
          /\ currentTime.tm_min = dt.asked.tm_min
          /\ currentTime.tm_hour = dt.asked.tm_hour
          /\ currentTime.tm_mday = dt.asked.tm_mday
          /\ currentTime.tm_mon = dt.asked.tm_mon
          /\ currentTime.tm_year = dt.asked.tm_year
          /\ returnedTime = rtcTime
\* 2099-12-31 23:59:59 was written and read back
C33_Witness ==
    /\ dt.stage = "setget"
    /\ dt.asked = [LastTime EXCEPT !.tm_mday = 31]
    /\ registers = [k \in 0..7 |-> <<89, 89, 35, 5, 49, 18, 153, 19>>[k + 1]]
    /\ currentTime.tm_year = 199 /\ currentTime.tm_mon = 11 /\ currentTime.tm_mday = 31

\* C39: for every valid hour register, in the 24-hour mode and in the 12-hour mode, the
\* hour that DS1307_getDatetime decodes is in 0..23 and is the hour of the day the
\* register stands for; 12 AM is 0 and 12 PM is 12.
C39_HourDecoded ==
    dt.stage = "readget" => (currentTime.tm_hour \in 0..23 /\ currentTime.tm_hour = dt.hour)

(***************************************************************************)
(* Properties of the DS1307 transactions.                                  *)
(***************************************************************************)
\* the operations on the bus during DS1307_setDatetime
SetDatetimeOps ==
    <<"START", "TX", "TX", "START", "TX", "RX", "STOP", "START", "TX", "TX">>
    \o [k \in 1..8 |-> "TX"] \o <<"STOP">>
Stops(log) == Cardinality({ j \in 1..Len(log) : log[j].op = "STOP" })

\* C34: DS1307_setDatetime preserves the control register: the value it writes to
\* register 7 is the value it has read from register 7 in the same call; the read
\* transaction is ended with a stop condition before the start condition of the write
\* transaction, so at most one frame is open at any time.
C34_ControlRegisterPreserved ==
    rtc.setDatetime =>
        /\ Len(twiLog) <= Len(SetDatetimeOps)
        /\ \A j \in 1..Len(twiLog) : twiLog[j].op = SetDatetimeOps[j]
        /\ Len(twiLog) >= 3 => twiLog[3].data = 7
        /\ Len(twiLog) >= 10 => twiLog[10].data = 0
        /\ Len(twiLog) >= 18 => twiLog[18].data = twiLog[6].data
        /\ rtc.fn = "setAllRegisters" =>
              /\ rtc.from = 7
              /\ Stops(SubSeq(twiLog, 1, rtc.from)) = 1 /\ twiLog[rtc.from].op = "STOP"
              /\ rtc.pc # "return" => Stops(twiLog) = 1
\* the control register read as 0x13 and written back as 0x13, at the return
C34_Witness ==
    /\ rtc.setDatetime /\ rtc.fn = "setAllRegisters" /\ rtc.pc = "return"
    /\ Len(twiLog) = 19
    /\ twiLog[6].data = 19 /\ twiLog[18].data = 19
    /\ twiLog[11].data = 89
    /\ pc = "run"

\* C38: if a step of the I2C driver throws inside a DS1307 transaction (DS1307_getRegister,
\* DS1307_getAllRegisters, DS1307_setRegister, DS1307_setAllRegisters), no stop condition
\* is emitted for that transaction and the frame stays open; a transaction that completes
\* without a throw has emitted exactly one stop condition, as its last bus action.
C38_StopExactlyOnCompletion ==
    [][ /\ (rtc.fn # "none" /\ pc' = "halted") =>
              /\ Stops(SubSeq(twiLog', rtc.from + 1, Len(twiLog'))) = 0
              /\ "TWSTO" \notin TWCR'
        /\ (ds.pc # "idle" /\ pc' = "halted") =>
              /\ Stops(twiLog') = 0
              /\ "TWSTO" \notin TWCR'
        /\ rtc.pc = "return" =>
              /\ Stops(SubSeq(twiLog, rtc.from + 1, Len(twiLog))) = 1
              /\ twiLog[Len(twiLog)].op = "STOP"
        /\ ds.pc = "return" =>
              /\ Stops(twiLog) = 1
              /\ twiLog[Len(twiLog)].op = "STOP"
      ]_vars
\* the write transaction of DS1307_setDatetime has thrown at its fifth bus action, after
\* the read transaction was ended with a stop condition
C38_Witness ==
    /\ pc = "halted"
    /\ twiCall.outcome = "thrown"
    /\ Len(twiLog) = 12
    /\ twiLog[7].op = "STOP"
    /\ twiLog[12].status = I2C_MASTER_DATA_SENT_NACK
    /\ Stops(twiLog) = 1
    /\ "TWSTO" \notin TWCR

(***************************************************************************)
(* Properties of the storage of the receive FIFOs.                         *)
(***************************************************************************)
\* the addresses of the storage of FIFO i, and its unread bytes
Storage(i) == { _uartBuffers_all[i].ptr + k : k \in 0..(_uartBuffers_all[i].maxSize - 1) }
Stored(i) == [k \in 1.._uartBuffers_all[i].size |-> Load(_uartBuffers_all[i].ptr + k - 1)]

\* C35: a byte received on UART interface i changes only the FIFO of interface i; the
\* four FIFOs have pairwise disjoint storage of UART_BUFFER_SIZE bytes each, and each
\* storage lies inside the array _rawUARTBuffers, for all interfaces 0..3.
C35_ReceiveChangesOwnFifoOnly ==
    [][ /\ rxIf' \in Interfaces =>
              \A j \in Interfaces \ {rxIf'} :
                  _uartBuffers_all'[j] = _uartBuffers_all[j] /\ Stored(j)' = Stored(j)
        /\ \A i \in Interfaces :
              /\ _uartBuffers_all[i].maxSize = UART_BUFFER_SIZE
              /\ Cardinality(Storage(i)) = UART_BUFFER_SIZE
              /\ Storage(i) \subseteq ArrayAddresses
              /\ \A j \in Interfaces \ {i} : Storage(i) \cap Storage(j) = {}
      ]_vars
\* the same for the interfaces 0..2, whose storage are the three rows of the array
C35_RowsOfTheArray ==
    [][ /\ rxIf' \in 0..2 =>
              \A j \in Interfaces \ {rxIf'} :
                  _uartBuffers_all'[j] = _uartBuffers_all[j] /\ Stored(j)' = Stored(j)
        /\ \A i \in 0..2 :
              /\ Cardinality(Storage(i)) = UART_BUFFER_SIZE
              /\ Storage(i) \subseteq ArrayAddresses
              /\ \A j \in Interfaces \ {i} : Storage(i) \cap Storage(j) = {}
      ]_vars
\* a byte received on interface 3 was stored behind the array, and the program has then
\* overwritten it
C35_StoredBehindTheArray ==
    /\ _uartBuffers_all[3].size = 1
    /\ behind[3 * UART_BUFFER_SIZE] = OtherByte
    /\ Stored(3) = <<OtherByte>>

(***************************************************************************)
(* Properties of the waits of the I2C driver.                              *)
(***************************************************************************)
\* C36: i2c_master_startFrame, i2c_master_sendByte and i2c_master_readByte have no
\* timeout: as long as the hardware does not set TWINT after the operation was started,
\* the function neither returns nor throws.  i2c_master_endFrame returns after requesting
\* the stop condition, without waiting for a status of the hardware.
C36_NoTimeout ==
    [][ /\ (tw.pc \in Awaiting /\ "TWINT" \notin TWCR /\ "TWINT" \notin TWCR') =>
              /\ tw' = tw
              /\ twiCall' = twiCall
              /\ pc' = pc /\ lastThrow' = lastThrow
        /\ ("TWSTO" \notin TWCR /\ "TWSTO" \in TWCR') =>
              /\ tw'.pc = "idle"
              /\ twiCall' = [fn |-> "endFrame", arg |-> 0, direction |-> 0, outcome |-> "returned"]
              /\ pc' = "run"
              /\ twStatus' = twStatus
      ]_vars
\* i2c_master_endFrame has returned with TWINT clear, after an i2c_master_sendByte that
\* was acknowledged
C36_Witness ==
    /\ twiCall.fn = "endFrame" /\ twiCall.outcome = "returned"
    /\ tw.pc = "idle"
    /\ TWDR = 165 /\ twStatus = I2C_MASTER_DATA_SENT_ACK
    /\ "TWINT" \notin TWCR /\ "TWSTO" \in TWCR
\* i2c_master_readByte waits, the hardware has not set TWINT
C36_Waiting ==
    /\ tw.fn = "readByte" /\ tw.pc = "await"
    /\ "TWINT" \notin TWCR

(***************************************************************************)
(* Properties of usb_terminal_readln.                                      *)
(***************************************************************************)
\* the line that the characters make, a DEL taking away the character before it
RECURSIVE Typed(_)
Typed(chars) ==
    IF chars = << >> THEN << >>
    ELSE LET before == Typed(SubSeq(chars, 1, Len(chars) - 1))
             c == chars[Len(chars)]
         IN IF c # 127 THEN Append(before, c)
            ELSE IF before = << >> THEN << >> ELSE SubSeq(before, 1, Len(before) - 1)

\* C40: for every maxLength >= 1 and every sequence of received characters, with DEL
\* characters and with lines longer than the buffer, usb_terminal_readln writes only to
\* target[0 .. maxLength - 1]; it throws ERR_BUFFER_OVERFLOW, or it returns with the
\* null-terminated string of the characters typed, the DEL characters applied and the
\* ending CR or LF left out.
C40_LineWithinBuffer ==
    /\ \A k \in DOMAIN target : k \notin 0..(rl.maxLength - 1) => target[k] = 255
    /\ rl.pc = "thrown" => (pc = "halted" /\ lastThrow.code = ERR_BUFFER_OVERFLOW)
    /\ rl.pc = "returned" =>
          LET n == Len(rl.received)
              line == Typed(SubSeq(rl.received, 1, n - 1))
          IN /\ n >= 1 /\ rl.received[n] \in {10, 13}
             /\ \A j \in 1..(n - 1) : rl.received[j] \notin {10, 13}
             /\ Len(line) <= rl.maxLength - 1
             /\ \A k \in 1..Len(line) : target[k - 1] = line[k]
             /\ target[Len(line)] = 0
\* 'A', DEL, DEL, 'B' and CR were received for a buffer of three bytes
C40_Witness ==
    /\ rl.pc = "returned"
    /\ rl.maxLength = 3
    /\ rl.received = <<65, 127, 127, 66, 13>>
    /\ target[0] = 66 /\ target[1] = 0 /\ target[2] = 255
    /\ pc = "run"
\* a line of maxLength - 1 characters was rejected at its CR
C40_FullLineRejected ==
    /\ rl.pc = "thrown"
    /\ rl.maxLength = 3
    /\ rl.received = <<65, 66, 13>>

====
